---- MODULE Spec2Model ----
(***************************************************************************)
(* Thread Anchor content script: the page as the selectors see it          *)
(* (selectors.js), the click-driven anchor tracker (activeComment.js) and  *)
(* the ancestor chain builder with its caches (ancestors.js).              *)
(***************************************************************************)
EXTENDS Integers, Sequences, FiniteSets, TLC

\* Number of comments on the modelled page.
NumComments == 3

Comments == 1..NumComments

\* The page markups the selectors are written for:
\*   oldReal  - old Reddit as served: nested comments sit in
\*              .child > div#siteTable_t1_x.sitetable.listing
\*   oldDoc   - old Reddit as the header of selectors.js describes it:
\*              .thing.comment > .child > .thing.comment, under .siteTable.nestedlisting
\*   shreddit - new Reddit, nested <shreddit-comment depth=..> under <shreddit-comment-tree>
\*   testid   - new Reddit fallback, comments are [data-testid="comment"] elements
Markups == {"oldReal", "oldDoc", "shreddit", "testid"}
OldMarkups == {"oldReal", "oldDoc"}

VARIABLES
  markup,            \* which markup the page uses
  host,              \* window.location.hostname
  extras,            \* marker-bearing elements besides the comments, by selector
  content,           \* which parts each comment's element holds, and its body's text
  idCache,           \* Selectors: WeakMap comment element -> id
  metaCache,         \* Selectors: WeakMap comment element -> metadata
  cparent,           \* the page's comment tree: cparent[c] is the comment whose reply c is, 0 = top level
  depthAttr,         \* the depth attribute the server rendered on each <shreddit-comment>
  redditVersion,     \* Selectors: memoized layout, "none" before the first detection
  isActive,          \* ActiveComment.isActive
  onChangeCallback,  \* ActiveComment.onChangeCallback: "cb" or "null"
  currentAnchored,   \* ActiveComment.currentAnchored
  ev,                \* the click event being dispatched, with what its handlers did
  everThrew,         \* the registered callback has thrown at least once
  depthCache,        \* Selectors.depthCache (WeakMap: element -> depth)
  parentCache,       \* Ancestors.parentCache (WeakMap: element -> parent comment or null)
  chainCache,        \* Ancestors.chainCache (WeakMap: element -> array object)
  heap,              \* the array objects that are still referenced: address -> contents
  held,              \* the arrays callers of computeAncestors still hold, with what they did to them
  firstChain,        \* element -> the contents of the first array computeAncestors returned for it
  hung,              \* computeAncestors is in a walk that never ends
  used,              \* how many moves, invalidations, clearCache calls and writes to returned arrays have happened
  idless,            \* the comments that carry no id attribute (data-fullname, id, thingid, permalink)
  hasTitle,          \* the page has a post title, so that getOriginalPost() returns metadata
  stickyUI,          \* StickyUI's module state: isActive, container, rows, currentChainIds, ...
  marker,            \* per comment: it has the class ta-active-comment, and its own .ta-active-icon children
  lastCall,          \* the latest call of StickyUI's API, with what it did to the rows
  threadAnchor,      \* ThreadAnchor's module state: settings, isInitialized, currentActiveComment,
                     \* with the init() calls awaiting loadSettings and its registrations at
                     \* chrome.storage.onChanged
  scrolled,          \* the elements scrolled to while the current click is dispatched
  bg,                \* per comment: style.backgroundColor
  timers,            \* the pending setTimeout callbacks of highlightComment, oldest first
  util               \* the clock, and a function made by Util.debounce and one by Util.throttle

\* The page, with what selectors.js has cached of its comments.
pageVars == <<markup, host, extras, cparent, depthAttr, content, idCache, metaCache>>
trackerVars == <<isActive, onChangeCallback, currentAnchored, ev, everThrew>>
ancVars == <<depthCache, parentCache, chainCache, heap, held, firstChain, hung, used>>
uiVars == <<idless, hasTitle, stickyUI, marker, lastCall, threadAnchor>>
fxVars == <<scrolled, bg, timers, util>>
vars == <<pageVars, redditVersion, trackerVars, ancVars, uiVars, fxVars>>

-----------------------------------------------------------------------------
(* The page: elements, their attributes and parentElement.                 *)

Node(role, c) == [role |-> role, c |-> c]
NULL == Node("null", 0)
Body == Node("body", 0)

\* Elements every page has: the comment root, something outside the comments,
\* and the header container of stickyUI.js with an origin row and one ancestor row.
GlobalRoles == {"body", "root", "side", "sidebutton",
                "sticky", "oprow", "optitle", "opjump", "row", "jump"}

\* Elements of each comment; the button holds an icon and the author link a
\* span with the name.
CommentRolesOf(m) ==
  {"thing", "arrow", "entry", "expand", "author", "button", "input", "textarea",
   "md", "text", "bodylink", "buttonicon", "authorname"}
  \cup (IF m \in OldMarkups THEN {"child"} ELSE {})
  \cup (IF m = "oldReal" THEN {"listing"} ELSE {})

Nodes == {Node(r, 0) : r \in GlobalRoles}
         \cup {Node(r, c) : r \in CommentRolesOf(markup), c \in Comments}

Attr(tag, cls, id, testid, slot, clickid) ==
  [tag |-> tag, cls |-> cls, id |-> id, testid |-> testid, slot |-> slot, clickid |-> clickid]

Plain(tag) == Attr(tag, {}, "", "", "", "")

\* Attributes of the elements that do not depend on the markup.
CommonEl(n) ==
  CASE n.role = "body"       -> Plain("BODY")
    [] n.role = "side"       -> Plain("DIV")
    [] n.role = "sidebutton" -> Plain("BUTTON")
    [] n.role = "sticky"     -> Attr("DIV", {"visible"}, "ta-sticky-container", "", "", "")
    [] n.role = "oprow"      -> Attr("DIV", {"ta-sticky-row", "ta-op-row"}, "", "", "", "")
    [] n.role = "optitle"    -> Attr("A", {"ta-sticky-title"}, "", "", "", "")
    [] n.role = "opjump"     -> Attr("A", {"ta-sticky-jump"}, "", "", "", "")
    [] n.role = "row"        -> Attr("DIV", {"ta-sticky-row"}, "", "", "", "")
    [] n.role = "jump"       -> Attr("A", {"ta-sticky-jump"}, "", "", "", "")
    [] n.role = "button"     -> Plain("BUTTON")
    [] n.role = "input"      -> Plain("INPUT")
    [] n.role = "textarea"   -> Plain("TEXTAREA")
    [] n.role = "text"       -> Plain("P")
    [] n.role = "bodylink"   -> Plain("A")
    [] n.role = "buttonicon" -> Plain("SPAN")
    [] n.role = "authorname" -> Plain("SPAN")
    [] OTHER                 -> Plain("DIV")

OldEl(n) ==
  CASE n.role = "root" ->
         IF markup = "oldReal"
         THEN Attr("DIV", {"sitetable", "nestedlisting"}, "siteTable_t3", "", "", "")
         ELSE Attr("DIV", {"siteTable", "nestedlisting"}, "", "", "", "")
    [] n.role = "thing"   -> Attr("DIV", {"thing", "comment"}, "thing_t1", "", "", "")
    [] n.role = "arrow"   -> Attr("DIV", {"arrow"}, "", "", "", "")
    [] n.role = "entry"   -> Attr("DIV", {"entry"}, "", "", "", "")
    [] n.role = "expand"  -> Attr("A", {"expand"}, "", "", "", "")
    [] n.role = "author"  -> Attr("A", {"author"}, "", "", "", "")
    [] n.role = "md"      -> Attr("DIV", {"md"}, "", "", "", "")
    [] n.role = "child"   -> Attr("DIV", {"child"}, "", "", "", "")
    [] n.role = "listing" -> Attr("DIV", {"sitetable", "listing"}, "siteTable_t1", "", "", "")
    [] OTHER              -> CommonEl(n)

NewEl(n) ==
  CASE n.role = "root"   -> Plain("SHREDDIT-COMMENT-TREE")
    [] n.role = "thing"  ->
         IF markup = "shreddit" THEN Plain("SHREDDIT-COMMENT")
         ELSE Attr("DIV", {}, "", "comment", "", "")
    [] n.role = "arrow"  -> Attr("SPAN", {}, "", "", "", "upvote")
    [] n.role = "expand" -> Attr("SPAN", {}, "", "comment-collapse-toggle", "", "")
    [] n.role = "author" -> Attr("A", {}, "", "comment_author_link", "", "")
    [] n.role = "md"     ->
         IF markup = "shreddit" THEN Attr("DIV", {}, "", "", "comment", "")
         ELSE Attr("DIV", {}, "comment-content", "", "", "")
    [] OTHER             -> CommonEl(n)

\* "bare" is a page whose elements carry no marker of either layout.
El(n) ==
  IF markup \in OldMarkups THEN OldEl(n)
  ELSE IF markup = "bare" THEN CommonEl(n)
  ELSE NewEl(n)

\* element.parentElement (the html element above body carries none of the
\* markers the walks look for, so body's parent is taken as null)
ParentEl(n) ==
  CASE n.role = "thing" ->
         IF cparent[n.c] = 0 THEN Node("root", 0)
         ELSE IF markup = "oldReal" THEN Node("listing", cparent[n.c])
         ELSE IF markup = "oldDoc" THEN Node("child", cparent[n.c])
         ELSE Node("thing", cparent[n.c])
    [] n.role = "listing" -> Node("child", n.c)
    [] n.role \in {"child", "arrow", "entry"} -> Node("thing", n.c)
    [] n.role \in {"expand", "author", "button", "input", "textarea", "md"} -> Node("entry", n.c)
    [] n.role \in {"text", "bodylink"} -> Node("md", n.c)
    [] n.role = "buttonicon" -> Node("button", n.c)
    [] n.role = "authorname" -> Node("author", n.c)
    [] n.role \in {"root", "side", "sticky"} -> Body
    [] n.role = "sidebutton" -> Node("side", 0)
    [] n.role \in {"oprow", "row"} -> Node("sticky", 0)
    [] n.role \in {"optitle", "opjump"} -> Node("oprow", 0)
    [] n.role = "jump" -> Node("row", 0)
    [] OTHER -> NULL

\* The comments c lies under in the page's comment tree, nearest first.
RECURSIVE CommentAncestors(_)
CommentAncestors(c) ==
  IF cparent[c] = 0 THEN <<>> ELSE <<cparent[c]>> \o CommentAncestors(cparent[c])

SeqRange(s) == {s[i] : i \in 1..Len(s)}

\* Page trees: a reply is never its own ancestor.
AcyclicShapes == {f \in [Comments -> 0..NumComments] : \A c \in Comments : f[c] < c}

TrueDepth(f, c) ==
  LET RECURSIVE D(_)
      D(x) == IF f[x] = 0 THEN 0 ELSE 1 + D(f[x])
  IN D(c)

-----------------------------------------------------------------------------
(* selectors.js                                                            *)

\* Elements a document can hold besides the comments, named by the selector
\* of detectRedditVersion that finds them.
OldExtras == {".thing.comment", "#siteTable", "body.listing-page"}
NewExtras == {"shreddit-comment", "shreddit-app", "[data-testid=comment]"}

OldMarkersPresent ==
  \/ \E n \in Nodes : {"thing", "comment"} \subseteq El(n).cls
  \/ ".thing.comment" \in extras
  \/ \E n \in Nodes : El(n).id = "siteTable"
  \/ "#siteTable" \in extras
  \/ "listing-page" \in El(Body).cls
  \/ "body.listing-page" \in extras

NewMarkersPresent ==
  \/ \E n \in Nodes : El(n).tag = "SHREDDIT-COMMENT"
  \/ "shreddit-comment" \in extras
  \/ \E n \in Nodes : El(n).tag = "SHREDDIT-APP"
  \/ "shreddit-app" \in extras
  \/ \E n \in Nodes : El(n).testid = "comment"
  \/ "[data-testid=comment]" \in extras

\* detectRedditVersion that looks for the new layout's markers first.
detectRedditVersion_NewFirst(ver) ==
  IF ver # "none" THEN ver
  ELSE IF NewMarkersPresent THEN "new"
  ELSE IF OldMarkersPresent THEN "old"
  ELSE IF host = "old.reddit.com" THEN "old"
  ELSE "new"

\* detectRedditVersion: ver is the memoized value
detectRedditVersion(ver) ==
  IF ver # "none" THEN ver
  ELSE IF OldMarkersPresent THEN "old"
  ELSE IF NewMarkersPresent THEN "new"
  ELSE IF host = "old.reddit.com" THEN "old"
  ELSE "new"

\* getRedditVersion that detects afresh at every call.
getRedditVersion_Fresh(ver) == detectRedditVersion("none")

\* Selectors.getRedditVersion()
getRedditVersion(ver) == detectRedditVersion(ver)

OldIsCommentThing(el) ==
  el # NULL /\ "thing" \in El(el).cls /\ "comment" \in El(el).cls

NewIsCommentThing(el) ==
  el # NULL /\ (El(el).tag = "SHREDDIT-COMMENT" \/ El(el).testid = "comment")

\* Selectors.isCommentThing under the layout ver
isCommentThing(ver, el) ==
  IF ver = "old" THEN OldIsCommentThing(el) ELSE NewIsCommentThing(el)

\* The element and its ancestors, the element first.
RECURSIVE PathUp(_)
PathUp(n) == IF n = NULL THEN <<>> ELSE <<n>> \o PathUp(ParentEl(n))

\* The CSS selectors the tracker passes to element.closest
Matches(sel, e) ==
  CASE sel = ".md, [slot=comment], [data-testid=comment]" ->
         "md" \in El(e).cls \/ El(e).slot = "comment" \/ El(e).testid = "comment"
    [] sel = ".arrow, [data-click-id=upvote], [data-click-id=downvote]" ->
         "arrow" \in El(e).cls \/ El(e).clickid \in {"upvote", "downvote"}
    [] sel = ".expand, [data-testid=comment-collapse-toggle]" ->
         "expand" \in El(e).cls \/ El(e).testid = "comment-collapse-toggle"
    [] sel = "#ta-sticky-container" -> El(e).id = "ta-sticky-container"
    [] OTHER -> FALSE

\* The first element of a path with an index in hits, or null.
FirstAt(path, hits) ==
  IF hits = {} THEN NULL
  ELSE path[CHOOSE i \in hits : \A j \in hits : i <= j]

\* element.closest(selector): the element itself or its nearest ancestor matching sel
Closest(n, sel) ==
  LET path == PathUp(n)
  IN FirstAt(path, {i \in 1..Len(path) : Matches(sel, path[i])})

-----------------------------------------------------------------------------
(* selectors.js: the tree walker                                           *)

Thing(c) == Node("thing", c)

\* The elements the chain builder is called with: every comment, and one
\* element that is not a comment.
ChainInputs == {Thing(c) : c \in Comments} \cup {Node("root", 0)}

\* WeakMap operations: a map is a function whose domain is the set of its keys.
EmptyMap == [x \in {} |-> NULL]
Put(f, k, v) == [x \in DOMAIN f \cup {k} |-> IF x = k THEN v ELSE f[x]]
Remove(f, k) == [x \in DOMAIN f \ {k} |-> f[x]]
MapRange(f) == {f[x] : x \in DOMAIN f}

\* id.startsWith('siteTable'), on the ids that occur on the page
IdStartsWithSiteTable(id) == id \in {"siteTable", "siteTable_t1", "siteTable_t3"}

RECURSIVE OldParentWalk(_)
OldParentWalk(current) ==
  IF current = NULL THEN NULL
  ELSE IF "child" \in El(current).cls /\ ParentEl(current) # NULL
          /\ OldIsCommentThing(ParentEl(current))
       THEN ParentEl(current)
  ELSE IF "siteTable" \in El(current).cls THEN NULL
  ELSE OldParentWalk(ParentEl(current))

OldGetParentThing(el) ==
  IF ~OldIsCommentThing(el) THEN NULL ELSE OldParentWalk(ParentEl(el))

RECURSIVE NewParentWalk(_)
NewParentWalk(current) ==
  IF current = NULL THEN NULL
  ELSE IF NewIsCommentThing(current) THEN current
  ELSE IF El(current).tag = "SHREDDIT-COMMENT-TREE" THEN NULL
  ELSE NewParentWalk(ParentEl(current))

NewGetParentThing(el) ==
  IF ~NewIsCommentThing(el) THEN NULL ELSE NewParentWalk(ParentEl(el))

\* Selectors.getParentThing under the layout ver
getParentThing(ver, el) ==
  IF ver = "old" THEN OldGetParentThing(el) ELSE NewGetParentThing(el)

RECURSIVE OldDepthWalk(_, _)
OldDepthWalk(current, depth) ==
  IF current = NULL THEN depth
  ELSE IF "siteTable" \in El(current).cls /\ "nestedlisting" \in El(current).cls THEN depth
  ELSE IF El(current).id # "" /\ IdStartsWithSiteTable(El(current).id) THEN depth
  ELSE OldDepthWalk(ParentEl(current),
                    IF "child" \in El(current).cls THEN depth + 1 ELSE depth)

RECURSIVE NewDepthWalk(_, _)
NewDepthWalk(current, depth) ==
  IF current = NULL THEN depth
  ELSE LET d == IF El(current).tag = "SHREDDIT-COMMENT" THEN depth + 1 ELSE depth
       IN IF El(current).tag = "SHREDDIT-COMMENT-TREE" THEN d
          ELSE NewDepthWalk(ParentEl(current), d)

\* parseInt(el.getAttribute('depth') || '0', 10)
DepthAttrOf(el) ==
  IF markup = "shreddit" /\ el.role = "thing" THEN depthAttr[el.c] ELSE 0

\* Selectors.getIndentDepth under the layout ver: the depth cache after the
\* call and the value returned
getIndentDepth(dc, ver, el) ==
  IF ~isCommentThing(ver, el) THEN [dc |-> dc, val |-> -1]
  ELSE IF el \in DOMAIN dc THEN [dc |-> dc, val |-> dc[el]]
  ELSE LET depth == IF ver = "old" THEN OldDepthWalk(ParentEl(el), 0)
                    ELSE IF DepthAttrOf(el) # 0 THEN DepthAttrOf(el)
                    ELSE NewDepthWalk(ParentEl(el), 0)
       IN [dc |-> Put(dc, el, depth), val |-> depth]

-----------------------------------------------------------------------------
(* ancestors.js: the chain builder                                         *)

\* The caches of the chain builder and the arrays they refer to.
AncState == [pc |-> parentCache, cc |-> chainCache, heap |-> heap]

\* The address of a new array: the first one that no referenced array has.
Alloc(h) ==
  CHOOSE r \in 1..(Cardinality(DOMAIN h) + 1) :
    r \notin DOMAIN h /\ \A q \in 1..(r - 1) : q \in DOMAIN h

\* Arrays nobody refers to any more are collected.
Collect(h, cc, keep) == [r \in DOMAIN h \cap (MapRange(cc) \cup keep) |-> h[r]]

HeldRefs == {held[s].ref : s \in DOMAIN held} \ {0}

\* The value of an intermediate result, written as the one-element set
\* {body : x \in {result}} so that the result is computed once.
The(S) == CHOOSE x \in S : TRUE

\* getParentCached: the parent cache after the call and the parent returned
getParentCached(pc, ver, commentEl) ==
  IF commentEl \in DOMAIN pc
  THEN [pc |-> pc, parent |-> pc[commentEl]]
  ELSE The({[pc |-> Put(pc, commentEl, parent), parent |-> parent] :
            parent \in {getParentThing(ver, commentEl)}})

\* The loop of computeAncestors. When it comes to a node that is already in
\* the chain, every later lookup is a cache hit and the loop never ends:
\* the walk is cut there and reported as hung.
RECURSIVE AncestorWalk(_, _, _, _)
AncestorWalk(current, chain, pc, ver) ==
  IF current = NULL THEN [chain |-> chain, pc |-> pc, hung |-> FALSE]
  ELSE IF current \in SeqRange(chain)
       THEN [chain |-> <<current>> \o chain, pc |-> pc, hung |-> TRUE]
  ELSE The({AncestorWalk(g.parent, c2, g.pc, ver) :
            g \in {getParentCached(pc, ver, current)}, c2 \in {<<current>> \o chain}})

\* A call that returns a new array with the contents q.
ReturnNew(a, q) ==
  The({[a |-> [a EXCEPT !.heap = Put(@, r, q)], ret |-> r, hung |-> FALSE, walk |-> <<>>] :
       r \in {Alloc(a.heap)}})

\* The end of computeAncestors after the walk w: the chain goes into the
\* cache; the array at ret is returned.
CacheAndReturn(a, commentEl, w, copy) ==
  IF w.hung
  THEN [a |-> [a EXCEPT !.pc = w.pc], ret |-> 0, hung |-> TRUE, walk |-> w.chain]
  ELSE The({IF copy
            THEN ReturnNew([pc |-> w.pc, cc |-> Put(a.cc, commentEl, r1),
                            heap |-> Put(a.heap, r1, w.chain)], w.chain)
            ELSE [a |-> [pc |-> w.pc, cc |-> Put(a.cc, commentEl, r1),
                         heap |-> Put(a.heap, r1, w.chain)],
                  ret |-> r1, hung |-> FALSE, walk |-> <<>>] :
            r1 \in {Alloc(a.heap)}})

\* computeAncestors that hands out the array it keeps in the cache.
computeAncestors_NoCopy(a, ver, commentEl) ==
  IF ~isCommentThing(ver, commentEl) THEN ReturnNew(a, <<>>)
  ELSE IF commentEl \in DOMAIN a.cc
  THEN [a |-> a, ret |-> a.cc[commentEl], hung |-> FALSE, walk |-> <<>>]
  ELSE The({CacheAndReturn(a, commentEl, w, FALSE) :
            w \in {AncestorWalk(commentEl, <<>>, a.pc, ver)}})

\* computeAncestors: the caches and arrays after the call, the address of the
\* array returned, and whether the call never returns (walk is then the
\* chain built so far)
computeAncestors(a, ver, commentEl) ==
  IF ~isCommentThing(ver, commentEl) THEN ReturnNew(a, <<>>)
  ELSE IF commentEl \in DOMAIN a.cc
  THEN ReturnNew(a, a.heap[a.cc[commentEl]])
  ELSE The({CacheAndReturn(a, commentEl, w, TRUE) :
            w \in {AncestorWalk(commentEl, <<>>, a.pc, ver)}})

\* The contents of the array a call returned.
Returned(r) == IF r.hung THEN r.walk ELSE r.a.heap[r.ret]

\* getTopLevelAncestor
getTopLevelAncestor(a, ver, commentEl) ==
  The({[a |-> r.a, hung |-> r.hung, walk |-> r.walk,
        val |-> IF ~r.hung /\ Len(Returned(r)) > 0 THEN Returned(r)[1] ELSE NULL] :
       r \in {computeAncestors(a, ver, commentEl)}})

\* shareTopLevel
shareTopLevel(a, ver, comment1, comment2) ==
  The({IF t1.hung THEN [a |-> t1.a, hung |-> TRUE, walk |-> t1.walk, val |-> FALSE]
       ELSE The({IF t2.hung
                 THEN [a |-> t2.a, hung |-> TRUE, walk |-> t2.walk, val |-> FALSE]
                 ELSE [a |-> t2.a, hung |-> FALSE, walk |-> <<>>,
                       val |-> (t1.val # NULL /\ t1.val = t2.val)] :
                 t2 \in {getTopLevelAncestor(t1.a, ver, comment2)}}) :
       t1 \in {getTopLevelAncestor(a, ver, comment1)}})

\* The loop of findCommonAncestor: the element of chain2 nearest to its end
\* that is in chain1, or null
NearestCommon(chain1, chain2) ==
  LET set1 == SeqRange(chain1)
      hits == {i \in 1..Len(chain2) : chain2[i] \in set1}
  IN IF hits = {} THEN NULL
     ELSE chain2[CHOOSE i \in hits : \A j \in hits : j <= i]

\* findCommonAncestor
findCommonAncestor(a, ver, comment1, comment2) ==
  The({IF r1.hung
       THEN [a |-> r1.a, hung |-> TRUE, walk |-> r1.walk, val |-> NULL,
             chain1 |-> <<>>, chain2 |-> <<>>]
       ELSE The({IF r2.hung
                 THEN [a |-> r2.a, hung |-> TRUE, walk |-> r2.walk, val |-> NULL,
                       chain1 |-> <<>>, chain2 |-> <<>>]
                 ELSE [a |-> r2.a, hung |-> FALSE, walk |-> <<>>,
                       val |-> NearestCommon(r2.a.heap[r1.ret], r2.a.heap[r2.ret]),
                       chain1 |-> r2.a.heap[r1.ret], chain2 |-> r2.a.heap[r2.ret]] :
                 r2 \in {computeAncestors(r1.a, ver, comment2)}}) :
       r1 \in {computeAncestors(a, ver, comment1)}})

\* How often the page's structure changes and how often a caller invalidates.
MaxMoves == 2
MaxInvalidations == 1
MaxClears == 1

\* How many returned arrays callers hold at a time, and how often they write
\* to them.
MaxHeld == 2
MaxWrites == 1

\* A slot of a caller that holds no array.
NoArray == [ref |-> 0, node |-> NULL, hit |-> FALSE, shadow |-> <<>>, touched |-> 0]

Reverse(q) == [i \in 1..Len(q) |-> q[Len(q) + 1 - i]]

\* What a caller does to an array: push, pop, reverse.
ArrayOps == {"push", "pop", "reverse"}
Mutate(op, q) ==
  CASE op = "push" -> Append(q, Node("root", 0))
    [] op = "pop" -> IF Len(q) = 0 THEN q ELSE SubSeq(q, 1, Len(q) - 1)
    [] op = "reverse" -> Reverse(q)

\* Write the caches back; arrays nobody holds are collected.
CommitAnc(a, keep) ==
  /\ parentCache' = a.pc
  /\ chainCache' = a.cc
  /\ heap' = Collect(a.heap, a.cc, keep)

\* A caller computes the chain of an element and reads the result.
ComputeAncestors(commentEl) ==
  /\ ~hung
  /\ \E ver \in {detectRedditVersion(redditVersion)} :
     \E r \in {computeAncestors(AncState, ver, commentEl)} :
        /\ CommitAnc(r.a, HeldRefs)
        /\ hung' = r.hung
        /\ redditVersion' = ver
  /\ UNCHANGED <<pageVars, trackerVars, depthCache, held, firstChain, used>>
  /\ UNCHANGED <<uiVars, fxVars>>

\* Selectors.getIndentDepth(el)
GetIndentDepth(el) ==
  /\ ~hung
  /\ \E ver \in {detectRedditVersion(redditVersion)} :
     \E d \in {getIndentDepth(depthCache, ver, el)} :
        /\ depthCache' = d.dc
        /\ redditVersion' = ver
  /\ UNCHANGED <<pageVars, trackerVars, parentCache, chainCache, heap, held,
                 firstChain, hung, used>>
  /\ UNCHANGED <<uiVars, fxVars>>

\* Ancestors.findCommonAncestor(comment1, comment2)
FindCommonAncestor(comment1, comment2) ==
  /\ ~hung
  /\ \E ver \in {detectRedditVersion(redditVersion)} :
     \E r \in {findCommonAncestor(AncState, ver, comment1, comment2)} :
        /\ CommitAnc(r.a, HeldRefs)
        /\ hung' = r.hung
        /\ redditVersion' = ver
  /\ UNCHANGED <<pageVars, trackerVars, depthCache, held, firstChain, used>>
  /\ UNCHANGED <<uiVars, fxVars>>

\* Ancestors.shareTopLevel(comment1, comment2)
ShareTopLevel(comment1, comment2) ==
  /\ ~hung
  /\ \E ver \in {detectRedditVersion(redditVersion)} :
     \E r \in {shareTopLevel(AncState, ver, comment1, comment2)} :
        /\ CommitAnc(r.a, HeldRefs)
        /\ hung' = r.hung
        /\ redditVersion' = ver
  /\ UNCHANGED <<pageVars, trackerVars, depthCache, held, firstChain, used>>
  /\ UNCHANGED <<uiVars, fxVars>>

\* Ancestors.invalidate(commentEl)
Invalidate(commentEl) ==
  /\ ~hung
  /\ used.invalidations < MaxInvalidations
  /\ used' = [used EXCEPT !.invalidations = @ + 1]
  /\ parentCache' = Remove(parentCache, commentEl)
  /\ chainCache' = Remove(chainCache, commentEl)
  /\ heap' = Collect(heap, chainCache', HeldRefs)
  /\ UNCHANGED <<pageVars, redditVersion, trackerVars, depthCache, held, firstChain, hung>>
  /\ UNCHANGED <<uiVars, fxVars>>

\* Ancestors.clearCache(): logs a message and leaves both caches as they are
ClearCache ==
  /\ ~hung
  /\ used.clears < MaxClears
  /\ used' = [used EXCEPT !.clears = @ + 1]
  /\ UNCHANGED <<pageVars, redditVersion, trackerVars, depthCache, parentCache,
                 chainCache, heap, held, firstChain, hung>>
  /\ UNCHANGED <<uiVars, fxVars>>

\* The page moves comment c, with its replies, under comment d.
MoveComment(c, d) ==
  /\ ~hung
  /\ c # d
  /\ cparent[c] # d
  /\ c \notin SeqRange(CommentAncestors(d))
  /\ used.moves < MaxMoves
  /\ used' = [used EXCEPT !.moves = @ + 1]
  /\ cparent' = [cparent EXCEPT ![c] = d]
  /\ UNCHANGED <<markup, host, extras, depthAttr, content, idCache, metaCache, redditVersion, trackerVars, depthCache,
                 parentCache, chainCache, heap, held, firstChain, hung>>
  /\ UNCHANGED <<uiVars, fxVars>>

\* A caller computes the chain of an element and keeps the array in slot s.
ComputeAncestorsKeep(commentEl, s) ==
  /\ ~hung
  /\ held[s].ref = 0
  /\ \A t \in 1..(s - 1) : held[t].ref # 0
  /\ \E ver \in {detectRedditVersion(redditVersion)} :
     \E r \in {computeAncestors(AncState, ver, commentEl)} :
        /\ ~r.hung
        /\ CommitAnc(r.a, HeldRefs \cup {r.ret})
        /\ held' = [held EXCEPT ![s] = [ref |-> r.ret, node |-> commentEl,
                                        hit |-> commentEl \in DOMAIN chainCache,
                                        shadow |-> Returned(r), touched |-> 0]]
        /\ firstChain' = IF commentEl \in DOMAIN firstChain THEN firstChain
                         ELSE Put(firstChain, commentEl, Returned(r))
        /\ redditVersion' = ver
  /\ UNCHANGED <<pageVars, trackerVars, depthCache, hung, used>>
  /\ UNCHANGED <<uiVars, fxVars>>

\* The caller writes to the array it holds in slot s.
CallerMutate(s, op) ==
  /\ held[s].ref # 0
  /\ used.writes < MaxWrites
  /\ used' = [used EXCEPT !.writes = @ + 1]
  /\ heap' = [heap EXCEPT ![held[s].ref] = Mutate(op, @)]
  /\ held' = [held EXCEPT ![s].shadow = Mutate(op, @), ![s].touched = @ + 1]
  /\ UNCHANGED <<pageVars, redditVersion, trackerVars, depthCache, parentCache,
                 chainCache, firstChain, hung>>
  /\ UNCHANGED <<uiVars, fxVars>>

InitAnc ==
  /\ depthCache = EmptyMap
  /\ parentCache = EmptyMap
  /\ chainCache = EmptyMap
  /\ heap = EmptyMap
  /\ held = [s \in 1..MaxHeld |-> NoArray]
  /\ firstChain = EmptyMap
  /\ hung = FALSE
  /\ used = [moves |-> 0, invalidations |-> 0, writes |-> 0, clears |-> 0]

-----------------------------------------------------------------------------
(* activeComment.js                                                        *)

\* The tracker's fields together with what the handlers of the current event
\* did: calls = the values the callback was invoked with, threw = a callback
\* invocation threw, escaped = an exception left a click handler.
Tracker ==
  [isActive |-> isActive, cb |-> onChangeCallback, anchored |-> currentAnchored,
   calls |-> ev.calls, threw |-> ev.threw, escaped |-> ev.escaped]

\* A walk that does not stop at the first comment and returns the outermost one.
findCommentFromTarget_Outermost(ver, target) ==
  LET path == PathUp(target)
      stop == {i \in 1..Len(path) : path[i] = Body}
      upto == IF stop = {} THEN Len(path) ELSE (CHOOSE i \in stop : TRUE) - 1
      hits == {i \in 1..upto : isCommentThing(ver, path[i])}
  IN IF hits = {} THEN NULL
     ELSE path[CHOOSE i \in hits : \A j \in hits : j <= i]

\* findCommentFromTarget: walk up from the target, stopping at document.body
findCommentFromTarget(ver, target) ==
  LET path == PathUp(target)
      stop == {i \in 1..Len(path) : path[i] = Body}
      upto == IF stop = {} THEN Len(path) ELSE (CHOOSE i \in stop : TRUE) - 1
  IN FirstAt(path, {i \in 1..upto : isCommentThing(ver, path[i])})

isValidClickTarget(target, comment) ==
  IF El(target).tag = "A" /\ Closest(target, ".md, [slot=comment], [data-testid=comment]") = NULL THEN FALSE
  ELSE IF El(target).tag = "BUTTON" THEN FALSE
  ELSE IF El(target).tag = "INPUT" \/ El(target).tag = "TEXTAREA" THEN FALSE
  ELSE IF Closest(target, ".arrow, [data-click-id=upvote], [data-click-id=downvote]") # NULL THEN FALSE
  ELSE IF Closest(target, ".expand, [data-testid=comment-collapse-toggle]") # NULL THEN FALSE
  ELSE TRUE

\* setAnchored that notifies before it assigns: the callback sees the old value.
setAnchored_NotifyFirst(comment, t, throws) ==
  IF comment = t.anchored THEN t
  ELSE LET t1 == [t EXCEPT !.anchored = comment]
       IN IF t1.cb # "null"
          THEN [t1 EXCEPT !.calls = Append(@, t.anchored),
                          !.threw = @ \/ throws]
          ELSE t1

\* setAnchored without the try/catch around the callback.
setAnchored_NoCatch(comment, t, throws) ==
  IF comment = t.anchored THEN t
  ELSE LET t1 == [t EXCEPT !.anchored = comment]
       IN IF t1.cb # "null"
          THEN [t1 EXCEPT !.calls = Append(@, t1.anchored),
                          !.threw = @ \/ throws,
                          !.escaped = @ \/ throws]
          ELSE t1

\* setAnchored: throws says whether the callback throws when it is invoked
setAnchored(comment, t, throws) ==
  IF comment = t.anchored THEN t
  ELSE LET t1 == [t EXCEPT !.anchored = comment]
       IN IF t1.cb # "null"
          THEN [t1 EXCEPT !.calls = Append(@, t1.anchored),
                          !.threw = @ \/ throws]
          ELSE t1

\* handleCommentClick without the toggle branch.
handleCommentClick_NoToggle(target, t, ver, throws) ==
  IF ~t.isActive THEN t
  ELSE LET comment == findCommentFromTarget(ver, target)
       IN IF comment = NULL THEN t
          ELSE IF ~isValidClickTarget(target, comment) THEN t
          ELSE setAnchored(comment, t, throws)

handleCommentClick(target, t, ver, throws) ==
  IF ~t.isActive THEN t
  ELSE LET comment == findCommentFromTarget(ver, target)
       IN IF comment = NULL THEN t
          ELSE IF ~isValidClickTarget(target, comment) THEN t
          ELSE IF comment = t.anchored THEN setAnchored(NULL, t, throws)
          ELSE setAnchored(comment, t, throws)

\* handleDocumentClick without the check for the header container.
handleDocumentClick_NoStickyCheck(target, t, ver, throws) ==
  IF ~t.isActive \/ t.anchored = NULL THEN t
  ELSE IF findCommentFromTarget(ver, target) # NULL THEN t
  ELSE setAnchored(NULL, t, throws)

handleDocumentClick(target, t, ver, throws) ==
  IF ~t.isActive \/ t.anchored = NULL THEN t
  ELSE IF findCommentFromTarget(ver, target) # NULL THEN t
  ELSE IF Closest(target, "#ta-sticky-container") # NULL THEN t
  ELSE setAnchored(NULL, t, throws)

\* createRow / createOPRow: the listeners on the jump controls and on the
\* origin row's title call stopPropagation
StopsPropagation(target) == target.role \in {"jump", "opjump", "optitle"}

NoEvent ==
  [phase |-> "idle", target |-> NULL, pre |-> NULL, calls |-> <<>>,
   threw |-> FALSE, escaped |-> FALSE, late |-> FALSE]

\* Write a handler's result back to the tracker's fields and the event record.
Commit(t, phase) ==
  /\ currentAnchored' = t.anchored
  /\ ev' = [ev EXCEPT !.phase = phase, !.calls = t.calls,
                      !.threw = t.threw, !.escaped = t.escaped]
  /\ everThrew' = (everThrew \/ t.threw)
  /\ UNCHANGED <<isActive, onChangeCallback>>

\* The user clicks on an element of the page.
Click(target) ==
  /\ ev.phase = "idle"
  /\ ev' = [NoEvent EXCEPT !.phase = "capture", !.target = target,
                           !.pre = currentAnchored, !.late = everThrew]
  /\ UNCHANGED <<pageVars, redditVersion, isActive, onChangeCallback,
                 currentAnchored, everThrew>>
  /\ UNCHANGED <<ancVars, uiVars, fxVars>>

\* Capture phase at the document: handleCommentClick, when it is registered.
CaptureListeners ==
  /\ ev.phase = "capture"
  /\ \E throws \in BOOLEAN :
       Commit(handleCommentClick(ev.target, Tracker,
                                 detectRedditVersion(redditVersion), throws),
              "element")
  /\ UNCHANGED <<pageVars, redditVersion>>
  /\ UNCHANGED <<ancVars, uiVars, fxVars>>

\* Target and bubble phase below the document: the listeners of the header's rows.
ElementListeners ==
  /\ ev.phase = "element"
  /\ ev' = [ev EXCEPT !.phase = IF StopsPropagation(ev.target) THEN "done" ELSE "bubble"]
  /\ UNCHANGED <<pageVars, redditVersion, isActive, onChangeCallback,
                 currentAnchored, everThrew>>
  /\ UNCHANGED <<ancVars, uiVars, fxVars>>

\* A bubble phase in which handleCommentClick is registered a second time.
BubbleListeners_CommentClick ==
  /\ ev.phase = "bubble"
  /\ \E throws \in BOOLEAN :
       Commit(handleCommentClick(ev.target, Tracker,
                                 detectRedditVersion(redditVersion), throws),
              "done")
  /\ UNCHANGED <<pageVars, redditVersion>>
  /\ UNCHANGED <<ancVars, uiVars, fxVars>>

\* Bubble phase at the document: handleDocumentClick, when it is registered.
BubbleListeners ==
  /\ ev.phase = "bubble"
  /\ \E throws \in BOOLEAN :
       Commit(handleDocumentClick(ev.target, Tracker,
                                  detectRedditVersion(redditVersion), throws),
              "done")
  /\ UNCHANGED <<pageVars, redditVersion>>
  /\ UNCHANGED <<ancVars, uiVars, fxVars>>

\* Every handler of the click has run.
EndDispatch ==
  /\ ev.phase = "done"
  /\ ev' = NoEvent
  /\ UNCHANGED <<pageVars, redditVersion, isActive, onChangeCallback,
                 currentAnchored, everThrew>>
  /\ UNCHANGED <<ancVars, uiVars, fxVars>>

\* ActiveComment.init(options)
TrackerInit(callback) ==
  /\ ev.phase = "idle"
  /\ IF isActive
     THEN UNCHANGED <<redditVersion, isActive, onChangeCallback>>
     ELSE /\ onChangeCallback' = callback
          /\ isActive' = TRUE
          /\ redditVersion' = detectRedditVersion(redditVersion)
  /\ UNCHANGED <<pageVars, currentAnchored, ev, everThrew>>
  /\ UNCHANGED <<ancVars, uiVars, fxVars>>

\* ActiveComment.destroy()
TrackerDestroy ==
  /\ ev.phase = "idle"
  /\ IF ~isActive
     THEN UNCHANGED <<isActive, onChangeCallback, currentAnchored>>
     ELSE /\ currentAnchored' = NULL
          /\ onChangeCallback' = "null"
          /\ isActive' = FALSE
  /\ UNCHANGED <<pageVars, redditVersion, ev, everThrew>>
  /\ UNCHANGED <<ancVars, uiVars, fxVars>>

-----------------------------------------------------------------------------
(* selectors.js: ids and the original post                                 *)

\* getCommentId: the id of a comment as a one-token string, null ("") for an
\* element that is no comment or carries none of the id attributes
getCommentId(ver, el) ==
  IF ~isCommentThing(ver, el) THEN <<>>
  ELSE IF el.c \in idless THEN <<>>
  ELSE <<ToString(el.c)>>

\* The metadata getOriginalPost can return: null, or the post's with its id.
NoPost == [title |-> FALSE, postId |-> ""]
OpMetas == {NoPost, [title |-> TRUE, postId |-> "t3_post"]}

\* getOriginalPost: null when the page has no title
getOriginalPost ==
  IF ~hasTitle THEN NoPost ELSE [title |-> TRUE, postId |-> "t3_post"]

-----------------------------------------------------------------------------
(* stickyUI.js: the header renderer                                        *)

Min(a, b) == IF a < b THEN a ELSE b

\* Strings are sequences of tokens; Array.prototype.join puts the separator
\* between the elements, and null and '' contribute nothing.
RECURSIVE Join(_, _)
Join(parts, sep) ==
  IF Len(parts) = 0 THEN <<>>
  ELSE IF Len(parts) = 1 THEN parts[1]
  ELSE parts[1] \o <<sep>> \o Join(Tail(parts), sep)

\* chain.slice(0, depth) for depth >= 0
SliceTo(chain, depth) == SubSeq(chain, 1, Min(depth, Len(chain)))

\* The fingerprint render computes (newChainKey).
ChainKey(ver, displayChain, compact, opMeta) ==
  LET opId == IF opMeta.title
              THEN (IF opMeta.postId # "" THEN <<opMeta.postId>> ELSE <<"op">>)
              ELSE <<>>
      commentIds == Join([i \in 1..Len(displayChain) |-> getCommentId(ver, displayChain[i])], ",")
  IN opId \o <<"|">> \o commentIds \o <<"|">> \o <<IF compact THEN "true" ELSE "false">>

\* createOPRow that builds the origin's row as one more ancestor row.
OPRow_Ancestor(opMeta, compact) ==
  [kind |-> "row", comment |-> NULL, depth |-> 0, compact |-> compact]

\* createOPRow and createRow: what a row shows and what its listeners scroll to
OPRow(opMeta, compact) ==
  [kind |-> "op", comment |-> NULL, depth |-> 0, compact |-> compact]
Row(comment, depth, compact) ==
  [kind |-> "row", comment |-> comment, depth |-> depth, compact |-> compact]

\* The comments inside comment c's element (its replies, theirs, ...).
Descendants(c) == {d \in Comments : c \in SeqRange(CommentAncestors(d))}

\* el.querySelector('.ta-active-icon'): the comment that holds the first icon
\* inside el, 0 when there is none
IconHolder(m, c) ==
  IF m[c].icons > 0 THEN c
  ELSE IF \E d \in Descendants(c) : m[d].icons > 0
       THEN CHOOSE d \in Descendants(c) :
              m[d].icons > 0 /\ \A e \in Descendants(c) : m[e].icons > 0 => d <= e
       ELSE 0

NoMark == [cls |-> FALSE, icons |-> 0]

\* updateActiveHighlight that never takes the marker off the previous node.
updateActiveHighlight_NoRemove(u, newActiveComment) ==
  LET m2 == IF newActiveComment # NULL
            THEN [u.m EXCEPT ![newActiveComment.c] =
                    [cls |-> TRUE,
                     icons |-> IF IconHolder(u.m, newActiveComment.c) = 0 THEN @.icons + 1
                               ELSE @.icons]]
            ELSE u.m
  IN [u EXCEPT !.s.currentActiveComment = newActiveComment, !.m = m2]

\* updateActiveHighlight on u = [s |-> StickyUI's state, m |-> the markers]
updateActiveHighlight(u, newActiveComment) ==
  LET cur == u.s.currentActiveComment
      m1 == IF cur # NULL /\ cur # newActiveComment
            THEN LET h == IconHolder(u.m, cur.c)
                     unclassed == [u.m EXCEPT ![cur.c].cls = FALSE]
                 IN IF h = 0 THEN unclassed
                    ELSE [unclassed EXCEPT ![h].icons = @ - 1]
            ELSE u.m
      m2 == IF newActiveComment # NULL
            THEN [m1 EXCEPT ![newActiveComment.c] =
                    [cls |-> TRUE,
                     icons |-> IF IconHolder(m1, newActiveComment.c) = 0 THEN @.icons + 1
                               ELSE @.icons]]
            ELSE m1
  IN [u EXCEPT !.s.currentActiveComment = newActiveComment, !.m = m2]

\* What a call did to the rows: whether it cleared the container and how many
\* rows it created.
Did(u, cleared, created) == [s |-> u.s, m |-> u.m, cleared |-> cleared, created |-> created]

\* hide that leaves the stored fingerprint as it is.
hide_KeepFingerprint(u, activeComment) ==
  IF ~u.s.container THEN Did(u, FALSE, 0)
  ELSE Did(updateActiveHighlight(
             [u EXCEPT !.s.visible = FALSE, !.s.rows = <<>>],
             activeComment),
           TRUE, 0)

\* hide(activeComment)
hide(u, activeComment) ==
  IF ~u.s.container THEN Did(u, FALSE, 0)
  ELSE Did(updateActiveHighlight(
             [u EXCEPT !.s.visible = FALSE, !.s.rows = <<>>, !.s.currentChainIds = <<>>],
             activeComment),
           TRUE, 0)

\* currentChainIds.join('')
StoredKey(ids) == IF ids = <<>> THEN <<>> ELSE ids[1]

\* render that skips the fast path and always rebuilds the rows.
render_AlwaysRebuild(u, ver, chain, depth, compact, activeComment, opMeta) ==
  IF ~u.s.isActive \/ ~u.s.container THEN Did(u, FALSE, 0)
  ELSE \* lines 746-774 only
       LET displayChain == SliceTo(chain, depth)
           newRows == (IF opMeta.title THEN <<OPRow(opMeta, compact)>> ELSE <<>>)
                      \o [i \in 1..Len(displayChain) |-> Row(displayChain[i], i, compact)]
           u2 == [u EXCEPT !.s.currentChainIds = <<ChainKey(ver, displayChain, compact, opMeta)>>,
                           !.s.rows = newRows]
       IN IF ~opMeta.title /\ Len(displayChain) = 0
          THEN Did(hide(u2, NULL), TRUE, Len(newRows))
          ELSE Did([updateActiveHighlight(u2, activeComment) EXCEPT !.s.visible = TRUE],
                   TRUE, Len(newRows))

\* render(chain, depth, compact, activeComment, opMeta); config, which render
\* and init write, is read only by the style sheet and is left out
render(u, ver, chain, depth, compact, activeComment, opMeta) ==
  IF ~u.s.isActive \/ ~u.s.container THEN Did(u, FALSE, 0)
  ELSE LET displayChain == SliceTo(chain, depth)
           newChainKey == ChainKey(ver, displayChain, compact, opMeta)
           newRows == (IF opMeta.title THEN <<OPRow(opMeta, compact)>> ELSE <<>>)
                      \o [i \in 1..Len(displayChain) |-> Row(displayChain[i], i, compact)]
           u2 == [u EXCEPT !.s.currentChainIds = <<newChainKey>>, !.s.rows = newRows]
       IN IF newChainKey = StoredKey(u.s.currentChainIds) /\ u.s.visible
          THEN Did(updateActiveHighlight(u, activeComment), FALSE, 0)
          ELSE IF ~opMeta.title /\ Len(displayChain) = 0
          THEN Did(hide(u2, NULL), TRUE, Len(newRows))
          ELSE Did([updateActiveHighlight(u2, activeComment) EXCEPT !.s.visible = TRUE],
                   TRUE, Len(newRows))

\* setTheme(theme): the theme only feeds the style sheet, which has no part in
\* what the header shows
setTheme(u, theme) ==
  [u EXCEPT !.s.currentChainIds = <<>>]

\* StickyUI.init(options)
stickyInit(u, options) ==
  IF u.s.isActive THEN u
  ELSE [u EXCEPT !.s.isActive = TRUE,
                 !.s.container = TRUE, !.s.visible = FALSE, !.s.rows = <<>>]

\* destroy that leaves the marker on the active node.
stickyDestroy_KeepMarker(u) ==
  IF ~u.s.isActive THEN u
  ELSE [u EXCEPT !.s.currentActiveComment = NULL,
                 !.s.container = FALSE, !.s.visible = FALSE, !.s.rows = <<>>,
                 !.s.currentChainIds = <<>>, !.s.isActive = FALSE]

\* StickyUI.destroy()
stickyDestroy(u) ==
  IF ~u.s.isActive THEN u
  ELSE LET cur == u.s.currentActiveComment
           m1 == IF cur # NULL
                 THEN LET h == IconHolder(u.m, cur.c)
                          unclassed == [u.m EXCEPT ![cur.c].cls = FALSE]
                      IN IF h = 0 THEN unclassed
                         ELSE [unclassed EXCEPT ![h].icons = @ - 1]
                 ELSE u.m
       IN [u EXCEPT !.m = m1, !.s.currentActiveComment = NULL,
                    !.s.container = FALSE, !.s.visible = FALSE, !.s.rows = <<>>,
                    !.s.currentChainIds = <<>>, !.s.isActive = FALSE]

\* The renderer's state and the markers as the operators above take them.
UI == [s |-> stickyUI, m |-> marker]

NoCall ==
  [op |-> "none", shown |-> <<>>, compact |-> FALSE, origin |-> FALSE,
   active |-> NULL, cleared |-> FALSE, created |-> 0]

\* The latest call of render, hide or destroy as lastCall records it: of its
\* arguments the part of the chain within the depth limit (shown), the compact
\* flag, whether it was given origin metadata and the active node; and what it
\* did to the rows. A setTheme after it changes op only.
Call(op, chain, depth, compact, origin, active, r) ==
  [op |-> op, shown |-> SliceTo(chain, depth), compact |-> compact, origin |-> origin,
   active |-> active, cleared |-> r.cleared, created |-> r.created]

\* Depth limits and themes the calls are made with.
MaxDepthLimit == 2
Themes == {"dark", "light"}

\* The chains render is called with: sequences of distinct comments, taken
\* from as many comments as the longest chain has.
MaxChainLen == 2
Chains ==
  {q \in UNION {[1..n -> {Thing(c) : c \in 1..MaxChainLen}] : n \in 0..MaxChainLen} :
     \A i, j \in 1..Len(q) : q[i] = q[j] => i = j}

\* StickyUI.render(chain, depth, compact, activeComment, opMeta)
Render(chain, depth, compact, activeComment, opMeta) ==
  /\ \E ver \in {detectRedditVersion(redditVersion)} :
     \E r \in {render(UI, ver, chain, depth, compact, activeComment, opMeta)} :
        /\ stickyUI' = r.s
        /\ marker' = r.m
        /\ lastCall' = Call("render", chain, depth, compact, opMeta.title, activeComment, r)
        /\ redditVersion' = ver
  /\ UNCHANGED <<pageVars, trackerVars, ancVars, idless, hasTitle, threadAnchor, fxVars>>

\* StickyUI.hide(activeComment)
Hide(activeComment) ==
  /\ \E r \in {hide(UI, activeComment)} :
        /\ stickyUI' = r.s
        /\ marker' = r.m
        /\ lastCall' = Call("hide", <<>>, 0, FALSE, FALSE, activeComment, r)
  /\ UNCHANGED <<pageVars, redditVersion, trackerVars, ancVars, idless, hasTitle,
                 threadAnchor, fxVars>>

\* StickyUI.setTheme(theme)
SetTheme(theme) ==
  /\ stickyUI' = setTheme(UI, theme).s
  /\ lastCall' = [lastCall EXCEPT !.op = "setTheme"]
  /\ UNCHANGED <<pageVars, redditVersion, trackerVars, ancVars, idless, hasTitle,
                 marker, threadAnchor, fxVars>>

\* StickyUI.init(options)
StickyInit(options) ==
  /\ stickyUI' = stickyInit(UI, options).s
  /\ UNCHANGED <<pageVars, redditVersion, trackerVars, ancVars, idless, hasTitle,
                 marker, lastCall, threadAnchor, fxVars>>

\* StickyUI.destroy()
StickyDestroy ==
  /\ \E r \in {stickyDestroy(UI)} :
        /\ stickyUI' = r.s
        /\ marker' = r.m
  /\ lastCall' = Call("destroy", <<>>, 0, FALSE, FALSE, NULL, Did(UI, FALSE, 0))
  /\ UNCHANGED <<pageVars, redditVersion, trackerVars, ancVars, idless, hasTitle,
                 threadAnchor, fxVars>>

\* The page effects of a jump on f = [scrolled, bg, timers]: bg is each
\* comment's inline background colour, timers the pending timeouts. The
\* transition property, which highlightComment sets and its second timeout
\* resets, has no part in the colour and is left out.
FX == [scrolled |-> scrolled, bg |-> bg, timers |-> timers]

HighlightColor == "#fff8dc"

\* highlightComment: the revert timeout keeps the colour found (originalBg)
highlightComment(f, comment) ==
  [f EXCEPT !.bg[comment.c] = HighlightColor,
            !.timers = Append(@, [kind |-> "revert", node |-> comment,
                                  originalBg |-> f.bg[comment.c]])]

\* scrollToComment that scrolls and leaves the comment's colour alone.
scrollToComment_NoHighlight(f, row, comment) ==
  IF comment = NULL THEN f
  ELSE [f EXCEPT !.scrolled = Append(@, [row |-> row, to |-> comment])]

\* scrollToComment, called by the listeners of row number row (0: no row)
scrollToComment(f, row, comment) ==
  IF comment = NULL THEN f
  ELSE highlightComment([f EXCEPT !.scrolled = Append(@, [row |-> row, to |-> comment])],
                        comment)

\* The timeouts that can fire: revert timeouts all have the same delay and
\* fire in the order they were set; a transition timeout can fire among them.
CanFire(tm) ==
  {i \in 1..Len(tm) : \/ tm[i].kind = "transition"
                      \/ \A j \in 1..(i - 1) : tm[j].kind # "revert"}

RemoveAt(q, i) == SubSeq(q, 1, i - 1) \o SubSeq(q, i + 1, Len(q))

\* A timeout of highlightComment fires.
TimerFires(i) ==
  /\ i \in CanFire(timers)
  /\ IF timers[i].kind = "revert"
     THEN /\ bg' = [bg EXCEPT ![timers[i].node.c] = timers[i].originalBg]
          /\ timers' = Append(RemoveAt(timers, i),
                              [kind |-> "transition", node |-> timers[i].node,
                               originalBg |-> ""])
     ELSE /\ timers' = RemoveAt(timers, i)
          /\ UNCHANGED bg
  /\ UNCHANGED <<pageVars, redditVersion, trackerVars, ancVars, uiVars, scrolled, util>>

\* How many jumps are made on the page's comments.
MaxJumps == 3

\* A jump control whose row targets comment is activated.
ScrollToComment(comment) ==
  /\ Len(scrolled) < MaxJumps
  /\ \E f \in {scrollToComment(FX, 0, comment)} :
       /\ scrolled' = f.scrolled
       /\ bg' = f.bg
       /\ timers' = f.timers
  /\ UNCHANGED <<pageVars, redditVersion, trackerVars, ancVars, uiVars, util>>

-----------------------------------------------------------------------------
(* util.js: debounce and throttle                                          *)

\* The delay of the debounced function and the interval of the throttled one,
\* in ticks of the clock; how far the clock runs; how many timeouts are
\* followed at a time.
Delay == 2
Interval == 2
MaxTime == 9
MaxTimers == 2

\* The arguments the functions are invoked with.
ArgValues == {"a", "b"}

\* setTimeout(callback, delay): the id is one no pending timeout has
SetTimeout(pending, now, delay, args) ==
  Append(pending,
         [id |-> CHOOSE i \in 1..(Len(pending) + 1) :
                   /\ \A k \in DOMAIN pending : pending[k].id # i
                   /\ \A j \in 1..(i - 1) : \E k \in DOMAIN pending : pending[k].id = j,
          due |-> now + delay, args |-> args])

\* clearTimeout(id)
ClearTimeout(pending, id) ==
  LET Other(x) == x.id # id IN SelectSeq(pending, Other)

\* The closure of a function made by debounce or throttle: timeoutId (0 for
\* null), lastTime (throttle only), and the timeouts it has pending.
NoClosure == [timeoutId |-> 0, lastTime |-> 0, pending |-> <<>>]

\* debounced that does not clear the timeout of the invocation before.
debounced_NoClear(c, now, args) ==
  LET p == SetTimeout(c.pending, now, Delay, args)
  IN [c EXCEPT !.pending = p, !.timeoutId = p[Len(p)].id]

\* debounced(...args)
debounced(c, now, args) ==
  LET cleared == IF c.timeoutId # 0 THEN ClearTimeout(c.pending, c.timeoutId) ELSE c.pending
      p == SetTimeout(cleared, now, Delay, args)
  IN [c EXCEPT !.pending = p, !.timeoutId = p[Len(p)].id]

\* The callback of debounced's timeout: fn.apply(this, args), then timeoutId =
\* null unless fn threw
debounceTimeout(c, i, throws) ==
  [c EXCEPT !.pending = RemoveAt(@, i), !.timeoutId = IF throws THEN @ ELSE 0]

\* debounced.cancel() and throttled.cancel()
cancel(c) ==
  IF c.timeoutId # 0
  THEN [c EXCEPT !.pending = ClearTimeout(@, c.timeoutId), !.timeoutId = 0]
  ELSE c

\* throttled that executes fn without recording when.
throttled_KeepLastTime(c, now, args) ==
  LET remaining == Interval - (now - c.lastTime)
  IN IF remaining <= 0
     THEN [c |-> [c EXCEPT !.pending = IF c.timeoutId # 0 THEN ClearTimeout(@, c.timeoutId) ELSE @,
                           !.timeoutId = 0],
           exec |-> <<args>>]
     ELSE IF c.timeoutId = 0
     THEN The({[c |-> [c EXCEPT !.pending = p, !.timeoutId = p[Len(p)].id], exec |-> <<>>] :
               p \in {SetTimeout(c.pending, now, remaining, args)}})
     ELSE [c |-> c, exec |-> <<>>]

\* throttled(...args): the closure after the call and the arguments fn was
\* executed with, if it was
throttled(c, now, args) ==
  LET remaining == Interval - (now - c.lastTime)
  IN IF remaining <= 0
     THEN [c |-> [c EXCEPT !.pending = IF c.timeoutId # 0 THEN ClearTimeout(@, c.timeoutId) ELSE @,
                           !.timeoutId = 0,
                           !.lastTime = now],
           exec |-> <<args>>]
     ELSE IF c.timeoutId = 0
     THEN The({[c |-> [c EXCEPT !.pending = p, !.timeoutId = p[Len(p)].id], exec |-> <<>>] :
               p \in {SetTimeout(c.pending, now, remaining, args)}})
     ELSE [c |-> c, exec |-> <<>>]

\* The callback of throttled's timeout: lastTime = Date.now(), timeoutId =
\* null, then fn.apply(this, args)
throttleTimeout(c, i, now) ==
  [c EXCEPT !.pending = RemoveAt(@, i), !.timeoutId = 0, !.lastTime = now]

\* What has been seen of the debounced function: its latest invocation and
\* how many invocations less than Delay apart led to it (2 for more), the
\* latest execution of fn and how long after the latest invocation it came,
\* how often fn was executed since the latest invocation or cancel(), and
\* whether cancel() was called since the latest invocation.
NoDebounceLog ==
  [invoked |-> FALSE, callAt |-> 0, callArgs |-> "a", burst |-> 0,
   executed |-> FALSE, execArgs |-> "a", gap |-> 0, ran |-> 0, cancelled |-> FALSE]

\* What has been seen of the throttled function: the latest execution of fn,
\* how long after the execution before it came and whether a timeout made
\* it, and whether an invocation has been suppressed with neither an
\* execution nor cancel() after it.
NoThrottleLog ==
  [executed |-> FALSE, execAt |-> 0, gap |-> 0, trailing |-> FALSE, owed |-> FALSE]

\* Date.now() is past the first interval when the script is loaded; nothing
\* has been invoked.
InitUtil ==
  [now |-> Interval, d |-> NoClosure, t |-> NoClosure,
   dlog |-> NoDebounceLog, tlog |-> NoThrottleLog]

\* ThreadAnchor.DEFAULTS, with the depth limit cut to the model's range
DefaultSettings ==
  [stickyAncestorsEnabled |-> TRUE, stickyDepth |-> MaxDepthLimit,
   stickyCompact |-> TRUE, stickyTheme |-> "dark", manualColors |-> "default"]

InitRenderer ==
  /\ stickyUI = [isActive |-> FALSE, container |-> FALSE, visible |-> FALSE,
                 rows |-> <<>>, currentChainIds |-> <<>>, currentActiveComment |-> NULL]
  /\ marker = [c \in Comments |-> NoMark]
  /\ lastCall = NoCall
  /\ threadAnchor = [settings |-> DefaultSettings, isInitialized |-> FALSE,
                     currentActiveComment |-> NULL,
                     pending |-> 0, onChanged |-> 0, overtaken |-> FALSE]
  /\ scrolled = <<>>
  /\ bg = [c \in Comments |-> ""]
  /\ timers = <<>>
  /\ util = InitUtil

\* Every comment with its entry, author, score, time and a one-letter body;
\* nothing cached.
FullContent ==
  [entry |-> TRUE, author |-> TRUE, score |-> TRUE, time |-> TRUE, body |-> {<<"r">>}]

InitContent ==
  /\ content = [c \in Comments |-> FullContent]
  /\ idCache = EmptyMap
  /\ metaCache = EmptyMap

InitPage ==
  /\ markup \in Markups
  /\ host = IF markup \in OldMarkups THEN "old.reddit.com" ELSE "www.reddit.com"
  /\ extras = {}
  /\ InitContent
  /\ cparent \in AcyclicShapes
  /\ depthAttr = [c \in Comments |-> TrueDepth(cparent, c)]

InitTracker ==
  /\ isActive = FALSE
  /\ onChangeCallback = "null"
  /\ currentAnchored = NULL
  /\ ev = NoEvent
  /\ everThrew = FALSE

Init ==
  /\ InitPage
  /\ redditVersion = "none"
  /\ InitTracker
  /\ InitAnc
  /\ idless = {}
  /\ hasTitle = TRUE
  /\ InitRenderer

Next ==
  \/ \E target \in Nodes : Click(target)
  \/ CaptureListeners
  \/ ElementListeners
  \/ BubbleListeners
  \/ EndDispatch
  \/ \E callback \in {"cb", "null"} : TrackerInit(callback)
  \/ TrackerDestroy

Spec == Init /\ [][Next]_vars

-----------------------------------------------------------------------------
(* Properties of the Anchor Tracker.                                       *)

\* What the page's structure says about a click target, independently of the
\* walks the handlers perform.
HeaderRoles == {"sticky", "oprow", "optitle", "opjump", "row", "jump"}
ControlRoles == {"arrow", "expand", "author", "button", "input", "textarea"}
ContentRoles == {"thing", "entry", "md", "text", "bodylink", "child", "listing"}

\* The layout in use is the one the page's markup belongs to.
LayoutMatches == (redditVersion = "old") <=> (markup \in OldMarkups)

\* The comment whose elements the target belongs to.
CommentOf(target) == Node("thing", target.c)

InComment(target) == target.c # 0 /\ LayoutMatches

\* All handlers of a click have run while the tracker was initialised.
Handled == ev.phase = "done" /\ isActive

\* C1: a click on a valid target inside comment Z, when Z is not the anchored
\* node, leaves the tracker in Anchored(Z), Z being the nearest enclosing comment.
C1_AnchorAndSwitch ==
  (Handled /\ InComment(ev.target) /\ ev.target.role \in ContentRoles
     /\ ev.pre # CommentOf(ev.target))
  => currentAnchored = CommentOf(ev.target)

\* A switch from Anchored(X) to a reply Z nested in another comment.
C1_Witness ==
  /\ Handled /\ InComment(ev.target) /\ ev.target.role \in ContentRoles
  /\ ev.pre # NULL /\ ev.pre # CommentOf(ev.target)
  /\ cparent[ev.target.c] # 0
  /\ currentAnchored = CommentOf(ev.target)

\* C2: in Anchored(X) one click on a valid target inside X leaves the tracker
\* Idle once the capture and the bubble handler have both run, and the same
\* click from Idle anchors X again.
C2_ToggleOff ==
  (Handled /\ InComment(ev.target) /\ ev.target.role \in ContentRoles)
  => /\ ev.pre = CommentOf(ev.target) => currentAnchored = NULL
     /\ ev.pre = NULL => currentAnchored = CommentOf(ev.target)

C2_Witness ==
  /\ Handled /\ InComment(ev.target) /\ ev.target.role \in ContentRoles
  /\ ev.pre = CommentOf(ev.target)
  /\ currentAnchored = NULL
  /\ ev.calls = <<NULL>>

\* C3: in Anchored(X) a click inside no comment and outside the header yields
\* Idle, and a click inside the header leaves Anchored(X).
C3_ClickOutside ==
  (Handled /\ ev.pre # NULL /\ ev.target # NULL /\ ev.target.c = 0)
  => IF ev.target.role \in HeaderRoles
     THEN currentAnchored = ev.pre
     ELSE currentAnchored = NULL

\* A click on a header row (not on its jump control) while a node is anchored.
C3_Witness ==
  /\ Handled /\ ev.pre # NULL /\ ev.target = Node("row", 0)
  /\ currentAnchored = ev.pre

\* C4: a click whose target is an interactive control of a comment never
\* changes the anchor state and never invokes the callback.
C4_ControlsNeverAnchor ==
  (Handled /\ InComment(ev.target) /\ ev.target.role \in ControlRoles)
  => /\ currentAnchored = ev.pre
     /\ ev.calls = <<>>

\* C5 as stated: every change of the anchored node, by whatever operation,
\* invokes the registered callback exactly once with the new value, and the
\* callback is not invoked without a change.
C5_EveryChangeNotifies ==
  [][/\ (onChangeCallback # "null" /\ currentAnchored' # currentAnchored)
          => ev'.calls = Append(ev.calls, currentAnchored')
     /\ Len(ev'.calls) > Len(ev.calls) => currentAnchored' # currentAnchored]_vars

\* C5 amended: every change made by a click handler invokes the registered
\* callback exactly once with the new value, the callback is not invoked
\* without a change, and destroy() resets the anchored node without invoking it.
C5_ClickChangeNotifies ==
  [][/\ (onChangeCallback # "null" /\ ev.phase # "idle" /\ currentAnchored' # currentAnchored)
          => ev'.calls = Append(ev.calls, currentAnchored')
     /\ Len(ev'.calls) > Len(ev.calls) => currentAnchored' # currentAnchored
     /\ (ev.phase = "idle" /\ currentAnchored' # currentAnchored)
          => (currentAnchored' = NULL /\ ~isActive' /\ ev'.calls = ev.calls)]_vars

\* A switch from one comment to another has notified the callback once.
C5_Witness ==
  /\ ev.phase = "done" /\ onChangeCallback # "null"
  /\ ev.pre # NULL /\ currentAnchored # NULL /\ currentAnchored # ev.pre
  /\ ev.calls = <<currentAnchored>>

\* The transitions of the tracker's state machine.
Transition(pre, target) ==
  IF target.c # 0
  THEN IF pre = CommentOf(target) THEN NULL ELSE CommentOf(target)
  ELSE IF target.role \in HeaderRoles THEN pre ELSE NULL

\* C6: a throwing callback never lets an exception leave a click handler, the
\* anchored node is the value the callback was invoked with, and clicks
\* made after a throw still follow the transitions.
C6_ThrowContained ==
  /\ ~ev.escaped
  /\ ev.threw => currentAnchored = ev.calls[Len(ev.calls)]
  /\ (Handled /\ ev.late /\ (ev.target.c = 0 \/ ev.target.role \in ContentRoles))
       => currentAnchored = Transition(ev.pre, ev.target)

\* A click made after an earlier throw, whose callback throws again.
C6_Witness ==
  /\ Handled /\ ev.late /\ ev.threw
  /\ ev.target.role \in ContentRoles
  /\ currentAnchored # ev.pre
  /\ currentAnchored = Transition(ev.pre, ev.target)

\* C20: every change of the anchored node that a click makes (anchor, switch,
\* toggle off, click outside) is made, callback included, by the capture
\* handler at the document, before the listeners on the page's elements run
\* for that click.
C20_ChangeBeforePageHandlers ==
  [][(ev.phase # "idle" /\ currentAnchored' # currentAnchored)
       => ev.phase = "capture"]_vars

-----------------------------------------------------------------------------
(* The chain builder on a page whose structure changes.                    *)

NextAnc ==
  \/ \E el \in ChainInputs : ComputeAncestors(el)
  \/ \E e1, e2 \in ChainInputs : FindCommonAncestor(e1, e2)
  \/ \E e1, e2 \in ChainInputs : ShareTopLevel(e1, e2)
  \/ \E el \in ChainInputs : Invalidate(el)
  \/ ClearCache
  \/ \E c, d \in Comments : MoveComment(c, d)

SpecAnc == Init /\ [][NextAnc]_vars

(* The tree walker and the chain builder on a page that does not change.   *)

NextDepth ==
  \/ \E el \in ChainInputs : ComputeAncestors(el)
  \/ \E el \in ChainInputs : GetIndentDepth(el)

SpecDepth == Init /\ [][NextDepth]_vars

(* Callers that keep and write to the arrays the chain builder returns.    *)

NextCopy ==
  \/ \E el \in ChainInputs, s \in 1..MaxHeld : ComputeAncestorsKeep(el, s)
  \/ \E s \in 1..MaxHeld, op \in ArrayOps : CallerMutate(s, op)

SpecCopy == Init /\ [][NextCopy]_vars

-----------------------------------------------------------------------------
(* The chain builder's contract.                                           *)

CommentThings == {Thing(c) : c \in Comments}

Ver == detectRedditVersion(redditVersion)

Last(q) == q[Len(q)]

\* C7: for every classified comment node whose chain and depth have been
\* computed, the chain has depth + 1 elements and ends with the node itself.
C7_ChainLengthIsDepthPlusOne ==
  \A el \in CommentThings :
    (isCommentThing(Ver, el) /\ el \in DOMAIN chainCache /\ el \in DOMAIN depthCache)
      => /\ Len(heap[chainCache[el]]) = depthCache[el] + 1
         /\ Last(heap[chainCache[el]]) = el

\* Every array a caller holds has exactly the contents the caller gave it.
OwnContents == \A s \in 1..MaxHeld : held[s].ref # 0 => heap[held[s].ref] = held[s].shadow

\* The arrays callers hold are distinct from each other and from the cached ones.
DistinctArrays ==
  /\ \A s, t \in 1..MaxHeld : (held[s].ref # 0 /\ held[s].ref = held[t].ref) => s = t
  /\ \A s \in 1..MaxHeld : held[s].ref # 0 => held[s].ref \notin MapRange(chainCache)

\* An array nobody wrote to equals the first one returned for its node.
EqualWhenReturned ==
  \A s \in 1..MaxHeld :
    (held[s].ref # 0 /\ held[s].touched = 0) => held[s].shadow = firstChain[held[s].node]

\* A call made now returns what the first call for the node returned.
LaterCallsUnchanged ==
  \A el \in DOMAIN firstChain :
    Returned(computeAncestors(AncState, Ver, el)) = firstChain[el]

\* C8: two calls of chainOf for a node return arrays that are equal element by
\* element and distinct; writing to a returned array (push, pop, reverse)
\* changes neither what a later call returns nor any other returned array,
\* whether the array came from the first (uncached) or a later (cached) call.
C8_FreshEqualCopies ==
  /\ OwnContents
  /\ DistinctArrays
  /\ EqualWhenReturned
  /\ LaterCallsUnchanged

\* Two arrays for the same reply are held, one from the uncached and one from
\* a cached call, and one of them has been written to.
C8_Witness ==
  \E s, t \in 1..MaxHeld :
    /\ held[s].ref # 0 /\ held[t].ref # 0
    /\ held[s].node = held[t].node
    /\ held[s].node \in CommentThings
    /\ Len(firstChain[held[s].node]) >= 2
    /\ ~held[s].hit /\ held[t].hit
    /\ held[s].touched + held[t].touched > 0

\* The result of commonAncestorOf(a, b) followed by shareTopLevel(a, b).
CommonThenShare(a, b) ==
  The({[hung |-> r.hung \/ s.hung, val |-> r.val, share |-> s.val,
        chain1 |-> r.chain1, chain2 |-> r.chain2] :
       r \in {findCommonAncestor(AncState, Ver, a, b)},
       s \in {shareTopLevel(findCommonAncestor(AncState, Ver, a, b).a, Ver, a, b)}})

\* C9: commonAncestorOf(a, b) returns a node of both chains, the one with the
\* greatest index in chainOf(b); it returns null whenever shareTopLevel(a, b)
\* is false and a node whenever shareTopLevel(a, b) is true.
C9_CommonAncestor ==
  ~hung =>
    \A a, b \in ChainInputs :
      \A r \in {CommonThenShare(a, b)} :
         ~r.hung =>
           /\ r.val # NULL =>
                 /\ r.val \in SeqRange(r.chain1) \cap SeqRange(r.chain2)
                 /\ \A i \in 1..Len(r.chain2) :
                      r.chain2[i] \in SeqRange(r.chain1)
                        => \E j \in i..Len(r.chain2) : r.chain2[j] = r.val
           /\ ~r.share => r.val = NULL
           /\ r.share => r.val # NULL

\* C10: no call of chainOf runs forever.
C10_ChainOfTerminates == ~hung

-----------------------------------------------------------------------------
(* The header renderer under direct calls of its API: the rows.            *)

\* One page of each layout, the first comments of the chains without ids. The
\* nesting of the comments has no part in the rows, so all of them are
\* top-level here.
InitHeader ==
  /\ InitPage
  /\ markup \in {"oldDoc", "shreddit"}
  /\ cparent = [c \in Comments |-> 0]
  /\ redditVersion = "none"
  /\ InitTracker
  /\ InitAnc
  /\ idless \in {1..k : k \in 0..MaxChainLen}
  /\ hasTitle = TRUE
  /\ InitRenderer

StickyOptions ==
  {[depth |-> d, compact |-> k] : d \in 0..MaxDepthLimit, k \in BOOLEAN}

NextHeader ==
  \/ \E chain \in Chains, depth \in 0..MaxDepthLimit, compact \in BOOLEAN,
        active \in {Thing(1), NULL}, opMeta \in OpMetas :
       Render(chain, depth, compact, active, opMeta)
  \/ \E active \in {Thing(1), NULL} : Hide(active)
  \/ \E theme \in Themes : SetTheme(theme)
  \/ \E options \in StickyOptions : StickyInit(options)
  \/ StickyDestroy

SpecHeader == InitHeader /\ [][NextHeader]_vars

\* The fingerprint of the render that lastCall records.
KeyOf(ver, call) ==
  ChainKey(ver, call.shown, call.compact,
           IF call.origin THEN [title |-> TRUE, postId |-> "t3_post"] ELSE NoPost)

\* A step is a render that met a visible header and gives the fingerprint of
\* the render before it, with only calls named in ops since.
RepeatedRender(ops) ==
  /\ lastCall'.op = "render"
  /\ lastCall.op \in ops
  /\ stickyUI.visible
  /\ KeyOf(redditVersion', lastCall') = KeyOf(redditVersion', lastCall)

\* What the fast path does: no clear, no row created, the rows as they were,
\* the marker moved to the active node of the call.
RowsUntouched ==
  /\ ~lastCall'.cleared
  /\ lastCall'.created = 0
  /\ stickyUI'.rows = stickyUI.rows
  /\ stickyUI'.visible
  /\ stickyUI'.currentActiveComment = lastCall'.active

\* C11 as stated: a render with the fingerprint of the previous render on a
\* visible header leaves the rows untouched and only moves the marker,
\* whatever was called between the two renders.
C11_SameAsPreviousRender ==
  [][RepeatedRender({"render", "setTheme"}) => RowsUntouched]_vars

\* C11 amended: a render with the fingerprint of the previous render on a
\* visible header, with no setTheme between the two, leaves the rows untouched
\* (no clear, no row created) and only moves the marker.
C11_FastPath ==
  [][RepeatedRender({"render"}) => RowsUntouched]_vars

\* A render took the fast path on a header of an origin row and two ancestor
\* rows and moved the marker.
C11_Witness ==
  /\ lastCall.op = "render"
  /\ ~lastCall.cleared
  /\ stickyUI.visible
  /\ Len(stickyUI.rows) = 3
  /\ lastCall.active # NULL
  /\ marker[lastCall.active.c].cls

\* The nodes the ancestor rows of the header scroll to, first row first.
AncestorRows == SelectSeq(stickyUI.rows, LAMBDA r : r.kind = "row")
RowTargets == [i \in 1..Len(AncestorRows) |-> AncestorRows[i].comment]

\* C12: whenever the header is visible after a render, its ancestor rows are
\* the first min(depthLimit, |chain|) nodes of the chain passed to that render,
\* in root-to-leaf order, also for nodes without ids.
C12_RowsMatchLatestChain ==
  (lastCall.op = "render" /\ stickyUI.visible)
    => RowTargets = lastCall.shown

\* The places of the origin rows among the rows of the header.
OriginRows == {i \in 1..Len(stickyUI.rows) : stickyUI.rows[i].kind = "op"}

\* C13 as stated: whenever the header is visible it has exactly one origin
\* row, and that row is the first row.
C13_OneOriginRowFirst ==
  stickyUI.visible => OriginRows = {1}

\* C13 amended: whenever the header is visible after a render that was given
\* origin metadata it has exactly one origin row, the first row; after a
\* render without origin metadata it has ancestor rows only.
C13_OriginRowWhenGiven ==
  stickyUI.visible => OriginRows = (IF lastCall.origin THEN {1} ELSE {})

\* A visible header with the origin row followed by two ancestor rows.
C13_Witness ==
  /\ stickyUI.visible
  /\ lastCall.origin
  /\ Len(stickyUI.rows) = 3
  /\ OriginRows = {1}

\* C15: after a render with no origin metadata and no ancestor row to show the
\* header is hidden, has no rows and its fingerprint is empty; and the header
\* is never visible with zero rows.
C15_EmptyRenderHides ==
  /\ (/\ lastCall.op = "render"
      /\ ~lastCall.origin
      /\ lastCall.shown = <<>>)
       => (/\ ~stickyUI.visible
           /\ stickyUI.rows = <<>>
           /\ stickyUI.currentChainIds = <<>>)
  /\ stickyUI.visible => stickyUI.rows # <<>>

\* The latest call was a hide on a renderer that has its container.
Hidden == lastCall.op = "hide" /\ lastCall.cleared

\* The marker is on the node n alone (on no node when n is null).
MarkerOn(n) ==
  \A c \in Comments :
    marker[c] = IF n # NULL /\ n.c = c THEN [cls |-> TRUE, icons |-> 1] ELSE NoMark

\* C17: hide leaves the header with no rows, not visible and with an empty
\* fingerprint, the marker on the node it was given and on no node when it was
\* given none; the render that follows rebuilds the rows whatever its
\* arguments are.
C17_HideClears ==
  /\ [](Hidden => /\ stickyUI.rows = <<>>
                  /\ ~stickyUI.visible
                  /\ stickyUI.currentChainIds = <<>>
                  /\ stickyUI.currentActiveComment = lastCall.active
                  /\ MarkerOn(lastCall.active))
  /\ [][(Hidden /\ lastCall'.op = "render")
          => (lastCall'.cleared /\ Len(stickyUI'.rows) = lastCall'.created)]_vars

\* A hide kept the marker on the node it was given.
C17_Witness ==
  /\ Hidden
  /\ lastCall.active # NULL
  /\ marker[lastCall.active.c].cls
  /\ stickyUI.rows = <<>>

(* The header renderer under direct calls of its API: the active-node      *)
(* marker.                                                                 *)

\* One page of each layout with any nesting of its comments.
InitMarker ==
  /\ InitPage
  /\ markup \in {"oldDoc", "shreddit"}
  /\ redditVersion = "none"
  /\ InitTracker
  /\ InitAnc
  /\ idless = {}
  /\ hasTitle = TRUE
  /\ InitRenderer

NextMarker ==
  \/ \E chain \in {<<>>, <<Thing(1)>>}, active \in {Thing(c) : c \in Comments} \cup {NULL},
        opMeta \in OpMetas :
       Render(chain, MaxDepthLimit, TRUE, active, opMeta)
  \/ \E active \in {Thing(c) : c \in Comments} \cup {NULL} : Hide(active)
  \/ \E theme \in Themes : SetTheme(theme)
  \/ \E options \in StickyOptions : StickyInit(options)
  \/ StickyDestroy

SpecMarker == InitMarker /\ [][NextMarker]_vars

\* The nodes that carry the marker's class or an icon.
Marked == {c \in Comments : marker[c].cls \/ marker[c].icons > 0}

\* C16: after any sequence of render, hide, init and destroy at most one node
\* carries the active marker, and the node that does has the class and exactly
\* one icon.
C16_OneMarker ==
  /\ Cardinality(Marked) <= 1
  /\ \A c \in Marked : marker[c] = [cls |-> TRUE, icons |-> 1]

\* A render put the marker on a reply nested in another comment.
C16_Witness ==
  /\ lastCall.op = "render"
  /\ lastCall.active # NULL
  /\ cparent[lastCall.active.c] # 0
  /\ Marked = {lastCall.active.c}

-----------------------------------------------------------------------------
(* ancestors.js: ThreadAnchor, the tracker's callback and the click        *)
(* listeners of the page and the header working together.                  *)

\* The modules' state as handleActiveCommentChange takes and leaves it; call is
\* what lastCall records.
App == [u |-> UI, a |-> AncState, ta |-> threadAnchor, hung |-> FALSE, call |-> lastCall]

\* fullChain.slice(0, -1)
DropLast(q) == IF Len(q) = 0 THEN q ELSE SubSeq(q, 1, Len(q) - 1)

\* A callback that does nothing when the anchor is cleared.
handleActiveCommentChange_NoHide(x, ver, activeComment) ==
  IF ~x.ta.settings.stickyAncestorsEnabled THEN x
  ELSE IF activeComment = NULL
  THEN [x EXCEPT !.ta.currentActiveComment = NULL]
  ELSE The({IF r.hung
            THEN [x EXCEPT !.ta.currentActiveComment = activeComment,
                           !.a = r.a, !.hung = TRUE]
            ELSE The({[x EXCEPT !.ta.currentActiveComment = activeComment,
                                !.a = r.a,
                                !.u = [s |-> d.s, m |-> d.m],
                                !.call = Call("render", DropLast(Returned(r)),
                                              x.ta.settings.stickyDepth,
                                              x.ta.settings.stickyCompact,
                                              getOriginalPost.title, activeComment, d)] :
                      d \in {render(x.u, ver, DropLast(Returned(r)),
                                    x.ta.settings.stickyDepth, x.ta.settings.stickyCompact,
                                    activeComment, getOriginalPost)}}) :
            r \in {computeAncestors(x.a, ver, activeComment)}})

\* handleActiveCommentChange(activeComment)
handleActiveCommentChange(x, ver, activeComment) ==
  IF ~x.ta.settings.stickyAncestorsEnabled THEN x
  ELSE IF activeComment = NULL
  THEN The({[x EXCEPT !.ta.currentActiveComment = NULL,
                      !.u = [s |-> h.s, m |-> h.m],
                      !.call = Call("hide", <<>>, 0, FALSE, FALSE, NULL, h)] :
            h \in {hide(x.u, NULL)}})
  ELSE The({IF r.hung
            THEN [x EXCEPT !.ta.currentActiveComment = activeComment,
                           !.a = r.a, !.hung = TRUE]
            ELSE The({[x EXCEPT !.ta.currentActiveComment = activeComment,
                                !.a = r.a,
                                !.u = [s |-> d.s, m |-> d.m],
                                !.call = Call("render", DropLast(Returned(r)),
                                              x.ta.settings.stickyDepth,
                                              x.ta.settings.stickyCompact,
                                              getOriginalPost.title, activeComment, d)] :
                      d \in {render(x.u, ver, DropLast(Returned(r)),
                                    x.ta.settings.stickyDepth, x.ta.settings.stickyCompact,
                                    activeComment, getOriginalPost)}}) :
            r \in {computeAncestors(x.a, ver, activeComment)}})

\* Write the modules' state back; the chain computeAncestors returned is
\* dropped when the callback returns.
CommitApp(x) ==
  /\ stickyUI' = x.u.s
  /\ marker' = x.u.m
  /\ lastCall' = x.call
  /\ threadAnchor' = x.ta
  /\ CommitAnc(x.a, HeldRefs)
  /\ hung' = x.hung
  /\ UNCHANGED <<depthCache, held, firstChain, used>>

\* What a click handler of the tracker left: t is the tracker after the
\* handler; when the handler invoked the callback, handleActiveCommentChange
\* ran inside it with the value passed.
Notify(t, ver) ==
  IF Len(t.calls) > Len(ev.calls)
  THEN handleActiveCommentChange(App, ver, t.calls[Len(t.calls)])
  ELSE App

\* The settings chrome.storage can hold.
StoredSettings ==
  {[DefaultSettings EXCEPT !.stickyAncestorsEnabled = e, !.stickyDepth = d] :
     e \in BOOLEAN, d \in 0..MaxDepthLimit}

\* ThreadAnchor.init() from its call to its end, no other call of init() or
\* destroy() being made while it awaits loadSettings: the settings are loaded,
\* the listener is registered, then updateStickyAncestors
ThreadAnchorInit(stored) ==
  /\ ev.phase = "idle"
  /\ ~threadAnchor.isInitialized
  /\ threadAnchor.pending = 0
  /\ threadAnchor' = [threadAnchor EXCEPT !.settings = stored, !.isInitialized = TRUE,
                                          !.onChanged = @ + 1]
  /\ IF stored.stickyAncestorsEnabled
     THEN /\ IF isActive
             THEN UNCHANGED <<redditVersion, isActive, onChangeCallback>>
             ELSE /\ onChangeCallback' = "cb"
                  /\ isActive' = TRUE
                  /\ redditVersion' = detectRedditVersion(redditVersion)
          /\ stickyUI' = stickyInit(UI, [depth |-> stored.stickyDepth,
                                         compact |-> stored.stickyCompact]).s
          /\ UNCHANGED <<currentAnchored, marker>>
     ELSE /\ currentAnchored' = NULL
          /\ onChangeCallback' = "null"
          /\ isActive' = FALSE
          /\ stickyUI' = stickyDestroy(UI).s
          /\ marker' = stickyDestroy(UI).m
          /\ UNCHANGED redditVersion
  /\ UNCHANGED <<pageVars, ev, everThrew, ancVars, idless, hasTitle, lastCall, fxVars>>

\* The user clicks on an element of the page; the header's rows can be
\* clicked while the header shows them.
ClickApp(target) ==
  /\ ~hung
  /\ target.role \in {"row", "jump"}
       => (stickyUI.visible /\ AncestorRows # <<>> /\ scrolled = <<>>)
  /\ Click(target)

\* Capture phase at the document: handleCommentClick with ThreadAnchor's
\* callback.
CaptureApp ==
  /\ ev.phase = "capture"
  /\ \E ver \in {detectRedditVersion(redditVersion)} :
     \E t \in {handleCommentClick(ev.target, Tracker, ver, FALSE)} :
        /\ Commit(t, "element")
        /\ CommitApp(Notify(t, ver))
  /\ UNCHANGED <<pageVars, redditVersion, idless, hasTitle, fxVars>>

\* Target and bubble phase below the document: the listeners of the row the
\* clicked element belongs to (createRow). The jump control's listener stops
\* the propagation; the row's listener does not.
ElementApp ==
  /\ ev.phase = "element"
  /\ IF ev.target.role \in {"row", "jump"}
     THEN \E i \in DOMAIN AncestorRows :
          \E f \in {scrollToComment(FX, i, AncestorRows[i].comment)} :
             /\ scrolled' = f.scrolled
             /\ bg' = f.bg
             /\ timers' = f.timers
             /\ UNCHANGED util
     ELSE UNCHANGED fxVars
  /\ ev' = [ev EXCEPT !.phase = IF StopsPropagation(ev.target) THEN "done" ELSE "bubble"]
  /\ UNCHANGED <<pageVars, redditVersion, isActive, onChangeCallback,
                 currentAnchored, everThrew, ancVars, uiVars>>

\* Bubble phase at the document: handleDocumentClick with ThreadAnchor's
\* callback.
BubbleApp ==
  /\ ev.phase = "bubble"
  /\ \E ver \in {detectRedditVersion(redditVersion)} :
     \E t \in {handleDocumentClick(ev.target, Tracker, ver, FALSE)} :
        /\ Commit(t, "done")
        /\ CommitApp(Notify(t, ver))
  /\ UNCHANGED <<pageVars, redditVersion, idless, hasTitle, fxVars>>

\* The elements the user clicks: the text of each comment, the page outside
\* the comments, a row of the header and a row's jump control.
AppTargets ==
  {Node("text", c) : c \in Comments}
    \cup {Body, Node("row", 0), Node("jump", 0)}

\* A page of either layout with its title, the first comment with or
\* without an id; nothing initialised yet.
InitApp ==
  /\ InitPage
  /\ markup \in {"oldDoc", "shreddit"}
  /\ redditVersion = "none"
  /\ InitTracker
  /\ InitAnc
  /\ idless \in {{}, {1}}
  /\ hasTitle = TRUE
  /\ InitRenderer

NextApp ==
  \/ \E stored \in StoredSettings : ThreadAnchorInit(stored)
  \/ \E target \in AppTargets : ClickApp(target)
  \/ CaptureApp
  \/ ElementApp
  \/ BubbleApp
  \/ EndDispatch
  \/ \E i \in DOMAIN timers : TimerFires(i)

SpecApp == InitApp /\ [][NextApp]_vars

\* The proper ancestors of a comment in the page's tree, root first.
ProperAncestors(comment) ==
  LET up == CommentAncestors(comment.c)
  IN [i \in 1..Len(up) |-> Thing(up[Len(up) + 1 - i])]

\* The handlers of a click have run, or no click is being handled, ThreadAnchor
\* being initialised with the header enabled.
Settled ==
  /\ ev.phase \in {"done", "idle"}
  /\ threadAnchor.isInitialized
  /\ threadAnchor.settings.stickyAncestorsEnabled

\* C14: while a node is anchored the header shows the origin row and then the
\* rows of the node's first min(d, n) proper ancestors, root first, n being the
\* number of its proper ancestors and d the depth limit; the anchored node has
\* no row.
C14_AnchoredHeader ==
  (Settled /\ currentAnchored # NULL)
    => /\ stickyUI.visible
       /\ OriginRows = {1}
       /\ RowTargets = SliceTo(ProperAncestors(currentAnchored),
                               threadAnchor.settings.stickyDepth)
       /\ currentAnchored \notin SeqRange(RowTargets)

\* The click being handled is on the jump control of a row of the header.
JumpClick == ev.target = Node("jump", 0)

\* C18: activating the jump control of a row scrolls to the node the row was
\* built for and highlights that node only, whichever render built the row;
\* the click changes neither the anchored node nor the header, and invokes no
\* callback.
C18_JumpScrollsToRowNode ==
  /\ []((JumpClick /\ ev.phase = "done")
          => /\ currentAnchored = ev.pre
             /\ ev.calls = <<>>
             /\ Len(scrolled) = 1
             /\ scrolled[1].to = AncestorRows[scrolled[1].row].comment)
  /\ [][(JumpClick /\ ev.phase \in {"capture", "element"})
          => /\ stickyUI' = stickyUI
             /\ marker' = marker
             /\ currentAnchored' = currentAnchored
             /\ ev.phase = "element"
                  => /\ Len(scrolled') = 1
                     /\ bg' = [bg EXCEPT ![scrolled'[1].to.c] = HighlightColor]]_vars

\* With C anchored under A and B, the jump control of B's row was activated:
\* the page scrolled to B, B is highlighted and C is still anchored.
C18_Witness ==
  /\ JumpClick /\ ev.phase = "done"
  /\ currentAnchored # NULL
  /\ Len(scrolled) = 1
  /\ scrolled[1].row = 2
  /\ scrolled[1].to = ProperAncestors(currentAnchored)[2]
  /\ bg[scrolled[1].to.c] = HighlightColor
  /\ bg[currentAnchored.c] = ""

-----------------------------------------------------------------------------
(* Jumps to the comments of a page and the timeouts they set.              *)

NextJump ==
  \/ \E c \in Comments : ScrollToComment(Thing(c))
  \/ \E i \in DOMAIN timers : TimerFires(i)

SpecJump == InitMarker /\ [][NextJump]_vars

\* C19: once every timeout set by the jumps on a node has fired, the node's
\* background colour is the one it had before the first jump (none), however
\* closely the jumps follow one another.
C19_HighlightReverts ==
  timers = <<>> => \A c \in Comments : bg[c] = ""

-----------------------------------------------------------------------------
(* ancestors.js: change notifications of chrome.storage                    *)

\* A key of a notification: absent ({}) or present with its new value ({v}).
Opt(S) == {{}} \cup {{v} : v \in S}

\* The colour sets the popup can store under manualColors.
ColorChoices == {"default", "custom"}

\* How many keys a notification carries at most.
MaxKeys == 2

\* The changes objects chrome.storage.onChanged delivers: some of the five
\* settings the popup writes and of a key the Orchestrator does not know.
Changes ==
  {ch \in [stickyAncestorsEnabled : Opt(BOOLEAN), stickyDepth : Opt(0..MaxDepthLimit),
           stickyCompact : Opt(BOOLEAN), stickyTheme : Opt(Themes),
           manualColors : Opt(ColorChoices), lastOpened : Opt({"today"})] :
     Cardinality({k \in DOMAIN ch : ch[k] # {}}) \in 1..MaxKeys}

AreaNames == {"sync", "local"}

\* settings[key] after the loop: newValue when the key was changed
NewValue(old, opt) == IF opt = {} THEN old ELSE The(opt)

\* handleSettingsChange whose first line lets every storage area through.
applyChanges_AnyArea(settings, changes, areaName) ==
  [settings |->
     [stickyAncestorsEnabled |->
        NewValue(settings.stickyAncestorsEnabled, changes.stickyAncestorsEnabled),
      stickyDepth |-> NewValue(settings.stickyDepth, changes.stickyDepth),
      stickyCompact |-> NewValue(settings.stickyCompact, changes.stickyCompact),
      stickyTheme |-> NewValue(settings.stickyTheme, changes.stickyTheme),
      manualColors |-> NewValue(settings.manualColors, changes.manualColors)],
   needsStickyUpdate |-> changes.stickyAncestorsEnabled # {},
   needsRerender |-> \/ changes.stickyDepth # {}
                     \/ changes.stickyCompact # {}
                     \/ changes.stickyTheme # {}
                     \/ changes.manualColors # {}]

\* handleSettingsChange, lines 207-226: the area test and the loop over the
\* changed keys; a key that is not in settings is skipped
applyChanges(settings, changes, areaName) ==
  IF areaName # "sync"
  THEN [settings |-> settings, needsStickyUpdate |-> FALSE, needsRerender |-> FALSE]
  ELSE [settings |->
          [stickyAncestorsEnabled |->
             NewValue(settings.stickyAncestorsEnabled, changes.stickyAncestorsEnabled),
           stickyDepth |-> NewValue(settings.stickyDepth, changes.stickyDepth),
           stickyCompact |-> NewValue(settings.stickyCompact, changes.stickyCompact),
           stickyTheme |-> NewValue(settings.stickyTheme, changes.stickyTheme),
           manualColors |-> NewValue(settings.manualColors, changes.manualColors)],
        needsStickyUpdate |-> changes.stickyAncestorsEnabled # {},
        needsRerender |-> \/ changes.stickyDepth # {}
                          \/ changes.stickyCompact # {}
                          \/ changes.stickyTheme # {}
                          \/ changes.manualColors # {}]

\* rerenderStickyUI that updates the theme and leaves the rows as they are.
rerenderStickyUI_ThemeOnly(x, ver) ==
  [x EXCEPT !.u = setTheme(x.u, x.ta.settings.stickyTheme),
            !.call = [x.call EXCEPT !.op = "setTheme"]]

\* rerenderStickyUI(); lastCall records the render it makes as "rerender"
rerenderStickyUI(x, ver) ==
  The({IF y.ta.currentActiveComment # NULL
       THEN The({IF z.call.op = "render" THEN [z EXCEPT !.call.op = "rerender"] ELSE z :
                 z \in {handleActiveCommentChange(y, ver, y.ta.currentActiveComment)}})
       ELSE y :
       y \in {[x EXCEPT !.u = setTheme(x.u, x.ta.settings.stickyTheme),
                        !.call = [x.call EXCEPT !.op = "setTheme"]]}})

\* The tracker's fields that ActiveComment.init and destroy write, with the
\* layout Selectors has memoized.
Trk ==
  [isActive |-> isActive, onChangeCallback |-> onChangeCallback,
   currentAnchored |-> currentAnchored, redditVersion |-> redditVersion]

\* updateStickyAncestors(): x is the modules' state (App), t the tracker's
updateStickyAncestors(x, t) ==
  IF x.ta.settings.stickyAncestorsEnabled
  THEN [x |-> [x EXCEPT !.u = stickyInit(x.u, [depth |-> x.ta.settings.stickyDepth,
                                               compact |-> x.ta.settings.stickyCompact])],
        t |-> IF t.isActive THEN t
              ELSE [t EXCEPT !.onChangeCallback = "cb", !.isActive = TRUE,
                             !.redditVersion = detectRedditVersion(t.redditVersion)]]
  ELSE [x |-> [x EXCEPT !.u = stickyDestroy(x.u),
                        !.call = IF x.u.s.isActive
                                 THEN Call("destroy", <<>>, 0, FALSE, FALSE,
                                           x.u.s.currentActiveComment, Did(x.u, FALSE, 0))
                                 ELSE x.call,
                        !.ta.currentActiveComment = NULL],
        t |-> IF ~t.isActive THEN t
              ELSE [t EXCEPT !.currentAnchored = NULL, !.onChangeCallback = "null",
                             !.isActive = FALSE]]

\* handleSettingsChange(changes, areaName)
handleSettingsChange(x, t, changes, areaName) ==
  The({IF c.needsStickyUpdate
       THEN updateStickyAncestors([x EXCEPT !.ta.settings = c.settings], t)
       ELSE IF c.needsRerender /\ c.settings.stickyAncestorsEnabled
       THEN The({[x |-> rerenderStickyUI([x EXCEPT !.ta.settings = c.settings], ver),
                  t |-> [t EXCEPT !.redditVersion = ver]] :
                 ver \in {detectRedditVersion(t.redditVersion)}})
       ELSE [x |-> [x EXCEPT !.ta.settings = c.settings], t |-> t] :
       c \in {applyChanges(x.ta.settings, changes, areaName)}})

\* chrome.storage.onChanged calls handleSettingsChange(changes, areaName):
\* the listener is registered by ThreadAnchor.init, a notification is a task
\* of its own between the clicks, and the new
\* value of a key differs from the stored one (every area is taken to store
\* what the sync area stores, so that the area name is all that tells a
\* notification of another area from one of sync).
SettingsChange(changes, areaName) ==
  /\ ev.phase = "idle"
  /\ threadAnchor.onChanged > 0
  /\ ~hung
  /\ \A k \in DOMAIN threadAnchor.settings : threadAnchor.settings[k] \notin changes[k]
  /\ \E r \in {handleSettingsChange(App, Trk, changes, areaName)} :
       /\ CommitApp(r.x)
       /\ isActive' = r.t.isActive
       /\ onChangeCallback' = r.t.onChangeCallback
       /\ currentAnchored' = r.t.currentAnchored
       /\ redditVersion' = r.t.redditVersion
  /\ UNCHANGED <<pageVars, ev, everThrew, idless, hasTitle, fxVars>>

\* The clicks of this specification: the text of each comment and the page
\* outside the comments.
SettingsTargets == {Node("text", c) : c \in Comments} \cup {Body}

\* A page of either layout with its title, every comment with an id and each
\* comment a reply to the one before it; nothing initialised yet.
InitSettings ==
  /\ InitApp
  /\ cparent = [c \in Comments |-> c - 1]
  /\ idless = {}

NextSettings ==
  \/ \E stored \in StoredSettings : ThreadAnchorInit(stored)
  \/ \E changes \in Changes, areaName \in AreaNames : SettingsChange(changes, areaName)
  \/ \E target \in SettingsTargets : ClickApp(target)
  \/ CaptureApp
  \/ ElementApp
  \/ BubbleApp
  \/ EndDispatch

SpecSettings == InitSettings /\ [][NextSettings]_vars

\* The settings the header is drawn with.
RerenderKeys == {"stickyDepth", "stickyCompact", "stickyTheme", "manualColors"}

\* The step is a notification that gave one of the settings the header is
\* drawn with a new value, the feature being enabled before and after it and
\* a node being anchored.
RerenderNotified ==
  /\ threadAnchor.isInitialized
  /\ threadAnchor.settings.stickyAncestorsEnabled
  /\ threadAnchor'.settings.stickyAncestorsEnabled
  /\ currentAnchored # NULL
  /\ \E k \in RerenderKeys : threadAnchor'.settings[k] # threadAnchor.settings[k]

Enabled == threadAnchor.settings.stickyAncestorsEnabled

\* The tracker is Idle and listening, the header has its container and shows
\* nothing, and no node carries the marker.
IdleAndHidden ==
  /\ isActive
  /\ onChangeCallback = "cb"
  /\ currentAnchored = NULL
  /\ stickyUI.isActive
  /\ stickyUI.container
  /\ ~stickyUI.visible
  /\ stickyUI.rows = <<>>
  /\ Marked = {}

\* The tracker is Idle without listeners and callback, the header container
\* and the marker are off the page and the Orchestrator has no active node.
SwitchedOff ==
  /\ ~isActive
  /\ onChangeCallback = "null"
  /\ currentAnchored = NULL
  /\ ~stickyUI.isActive
  /\ ~stickyUI.container
  /\ ~stickyUI.visible
  /\ stickyUI.rows = <<>>
  /\ stickyUI.currentChainIds = <<>>
  /\ Marked = {}
  /\ threadAnchor.currentActiveComment = NULL

\* C29: a notification that sets stickyAncestorsEnabled to false leaves the
\* tracker Idle, the header container and the marker removed and the
\* Orchestrator without active node; while the setting stays false no step (no
\* click) invokes the callback or changes the state of tracker, chain builder,
\* header, marker or page effects; the notification that sets it to true again
\* leaves the tracker Idle and listening and the header hidden.
C29_DisableAndReenable ==
  [][threadAnchor.isInitialized
       => /\ (Enabled /\ ~Enabled') => SwitchedOff'
          /\ (~Enabled /\ ~Enabled')
               => /\ SwitchedOff'
                  /\ ev'.calls = <<>>
                  /\ UNCHANGED <<ancVars, stickyUI, marker, lastCall, fxVars>>
          /\ (~Enabled /\ Enabled') => IdleAndHidden']_vars

\* A click on a comment's text has been handled after a notification switched
\* the feature off while a node was anchored and marked.
C29_Witness ==
  /\ threadAnchor.isInitialized
  /\ ~Enabled
  /\ lastCall.op = "destroy"
  /\ lastCall.active # NULL
  /\ ev.phase = "done"
  /\ ev.target.role = "text"
  /\ SwitchedOff

\* The notification is for another area than sync, or every key it carries
\* is one the Orchestrator's settings do not have.
Foreign(changes, areaName) ==
  \/ areaName # "sync"
  \/ \A k \in DOMAIN threadAnchor.settings : changes[k] = {}

-----------------------------------------------------------------------------
(* selectors.js: layout detection                                          *)

\* The hosts the content script runs on.
Hosts == {"old.reddit.com", "www.reddit.com", "new.reddit.com"}

\* Selectors.getRedditVersion(): the first call detects and stores the layout
GetRedditVersion ==
  /\ redditVersion' = getRedditVersion(redditVersion)
  /\ UNCHANGED <<pageVars, trackerVars, ancVars, uiVars, fxVars>>

\* The page gains an element that carries a marker.
AddMarker(m) ==
  /\ m \notin extras
  /\ extras' = extras \cup {m}
  /\ UNCHANGED <<markup, host, cparent, depthAttr, content, idCache, metaCache,
                 redditVersion, trackerVars, ancVars, uiVars, fxVars>>

\* The page loses an element that carries a marker.
RemoveMarker(m) ==
  /\ m \in extras
  /\ extras' = extras \ {m}
  /\ UNCHANGED <<markup, host, cparent, depthAttr, content, idCache, metaCache,
                 redditVersion, trackerVars, ancVars, uiVars, fxVars>>

\* The page replaces its comments by comments of the markup m.
ReplaceComments(m) ==
  /\ m # markup
  /\ markup' = m
  /\ UNCHANGED <<host, extras, cparent, depthAttr, content, idCache, metaCache,
                 redditVersion, trackerVars, ancVars, uiVars, fxVars>>

\* Any document on any of the hosts: comments of either layout or elements
\* without markers, and any set of further marker elements; nothing detected.
InitDetect ==
  /\ markup \in Markups \cup {"bare"}
  /\ host \in Hosts
  /\ extras \in SUBSET (OldExtras \cup NewExtras)
  /\ InitContent
  /\ cparent = [c \in Comments |-> 0]
  /\ depthAttr = [c \in Comments |-> 0]
  /\ redditVersion = "none"
  /\ InitTracker
  /\ InitAnc
  /\ idless = {}
  /\ hasTitle = TRUE
  /\ InitRenderer

NextDetect ==
  \/ GetRedditVersion
  \/ \E m \in OldExtras \cup NewExtras : AddMarker(m)
  \/ \E m \in OldExtras \cup NewExtras : RemoveMarker(m)
  \/ \E m \in Markups \cup {"bare"} : ReplaceComments(m)

SpecDetect == InitDetect /\ [][NextDetect]_vars

\* The layout a detection made now would find.
Fresh == detectRedditVersion("none")

HasOldMarker == markup \in OldMarkups \/ extras \cap OldExtras # {}
HasNewMarker == markup \in {"shreddit", "testid"} \/ extras \cap NewExtras # {}

\* C23: the first detection stores the old layout when the page holds any
\* marker of the old layout, also next to markers of the new one; otherwise
\* the new layout when it holds any marker of the new layout; otherwise the
\* old layout exactly when the host is old.reddit.com.
C23_DetectionPriority ==
  [][(redditVersion = "none" /\ redditVersion' # "none")
       => redditVersion' = (IF HasOldMarker THEN "old"
                            ELSE IF HasNewMarker THEN "new"
                            ELSE IF host = "old.reddit.com" THEN "old"
                            ELSE "new")]_vars

\* The old layout is stored for a page of the new layout's host that holds
\* markers of both layouts.
C23_Witness ==
  /\ redditVersion = "old"
  /\ markup = "shreddit"
  /\ extras = {"#siteTable"}
  /\ host = "www.reddit.com"

-----------------------------------------------------------------------------
(* selectors.js: ids with their cache, metadata and excerpts               *)

\* The length excerpts are cut to (150 in the code) and the longest body text.
ExcerptLimit == 3
MaxBodyLen == 4

\* Text is a sequence of characters; " " stands for any white space.
Chars == {"a", "b", " "}
Texts == UNION {[1..n -> Chars] : n \in 0..MaxBodyLen}

\* String.prototype.trim
RECURSIVE TrimStart(_)
TrimStart(t) == IF t # <<>> /\ Head(t) = " " THEN TrimStart(Tail(t)) ELSE t
Trim(t) == Reverse(TrimStart(Reverse(TrimStart(t))))

\* textContent.trim().slice(0, 150), and '...' when textContent is longer
\* than 150
Excerpt(textContent) ==
  LET excerpt == SliceTo(Trim(textContent), ExcerptLimit)
  IN IF Len(textContent) > ExcerptLimit THEN excerpt \o <<"...">> ELSE excerpt

\* getCommentId with idCache: the cache after the call and the id returned
getCommentIdCached(ic, ver, el) ==
  IF ~isCommentThing(ver, el) THEN [ic |-> ic, val |-> <<>>]
  ELSE IF el \in DOMAIN ic THEN [ic |-> ic, val |-> ic[el]]
  ELSE LET id == getCommentId(ver, el)
       IN [ic |-> IF id # <<>> THEN Put(ic, el, id) ELSE ic, val |-> id]

\* The least of a set of comments (0 for none): the first in document order,
\* a comment coming before its replies.
FirstOf(S) == IF S = {} THEN 0 ELSE CHOOSE x \in S : \A y \in S : x <= y

\* The comment whose author, score, time and body NewReddit.getCommentMeta
\* reads for comment c: el.querySelector searches all of el, the replies
\* nested in it included, and returns the first match.
FoundIn(c) ==
  LET within == {c} \cup Descendants(c)
  IN [author |-> FirstOf({d \in within : content[d].author}),
      score  |-> FirstOf({d \in within : content[d].score}),
      time   |-> FirstOf({d \in within : content[d].time}),
      body   |-> FirstOf({d \in within : content[d].body # {}})]

\* The comment whose parts OldReddit.getCommentMeta reads: those of the
\* comment's own entry.
FoundInEntry(c) ==
  [author |-> IF content[c].author THEN c ELSE 0,
   score  |-> IF content[c].score THEN c ELSE 0,
   time   |-> IF content[c].time THEN c ELSE 0,
   body   |-> IF content[c].body # {} THEN c ELSE 0]

\* const meta = { author, score, time, excerpt }: the author, score and time
\* of comment d are written as d's number
MetaFrom(f) ==
  [author  |-> IF f.author = 0 THEN <<"[deleted]">> ELSE <<ToString(f.author)>>,
   score   |-> IF f.score = 0 THEN <<>> ELSE <<ToString(f.score)>>,
   time    |-> IF f.time = 0 THEN <<>> ELSE <<ToString(f.time)>>,
   excerpt |-> IF f.body = 0 THEN <<>> ELSE Excerpt(The(content[f.body].body))]

\* getCommentMeta that never looks into metaCache.
getCommentMeta_NoCache(mc, ver, el) ==
  IF ~isCommentThing(ver, el) THEN [mc |-> mc, val |-> <<>>]
  ELSE IF ver = "old" /\ ~content[el.c].entry THEN [mc |-> mc, val |-> <<>>]
  ELSE LET meta == MetaFrom(IF ver = "old" THEN FoundInEntry(el.c) ELSE FoundIn(el.c))
       IN [mc |-> Put(mc, el, meta), val |-> <<meta>>]

\* Selectors.getCommentMeta under the layout ver: the cache after the call
\* and the value returned, <<>> for null
getCommentMeta(mc, ver, el) ==
  IF ~isCommentThing(ver, el) THEN [mc |-> mc, val |-> <<>>]
  ELSE IF el \in DOMAIN mc THEN [mc |-> mc, val |-> <<mc[el]>>]
  ELSE IF ver = "old" /\ ~content[el.c].entry THEN [mc |-> mc, val |-> <<>>]
  ELSE LET meta == MetaFrom(IF ver = "old" THEN FoundInEntry(el.c) ELSE FoundIn(el.c))
       IN [mc |-> Put(mc, el, meta), val |-> <<meta>>]

\* What the functions are called with: null, a text node, an element that is
\* no comment, a comment and a reply to it.
TextNode == Node("#text", 0)
MetaInputs == {NULL, TextNode, Node("root", 0), Thing(1), Thing(2)}

\* Selectors.getCommentId(el)
GetCommentId(el) ==
  /\ \E ver \in {detectRedditVersion(redditVersion)} :
        /\ idCache' = getCommentIdCached(idCache, ver, el).ic
        /\ redditVersion' = ver
  /\ UNCHANGED <<markup, host, extras, cparent, depthAttr, content, metaCache,
                 trackerVars, ancVars, uiVars, fxVars>>

\* Selectors.getCommentMeta(el)
GetCommentMeta(el) ==
  /\ \E ver \in {detectRedditVersion(redditVersion)} :
        /\ metaCache' = getCommentMeta(metaCache, ver, el).mc
        /\ redditVersion' = ver
  /\ UNCHANGED <<markup, host, extras, cparent, depthAttr, content, idCache,
                 trackerVars, ancVars, uiVars, fxVars>>

\* The excerpt of a comment whose body holds any text.
InitExcerpt ==
  /\ markup \in {"oldDoc", "shreddit"}
  /\ host = IF markup \in OldMarkups THEN "old.reddit.com" ELSE "www.reddit.com"
  /\ extras = {}
  /\ cparent = [c \in Comments |-> 0]
  /\ depthAttr = [c \in Comments |-> 0]
  /\ \E t \in Texts : content = [c \in Comments |->
                                  IF c = 1 THEN [FullContent EXCEPT !.body = {t}]
                                  ELSE FullContent]
  /\ idCache = EmptyMap
  /\ metaCache = EmptyMap
  /\ redditVersion = "none"
  /\ InitTracker
  /\ InitAnc
  /\ idless = {}
  /\ hasTitle = TRUE
  /\ InitRenderer

NextExcerpt ==
  \/ \E el \in {Thing(1), Thing(2)} : GetCommentMeta(el)
  \/ \E el \in {Thing(1), Thing(2)} : GetCommentId(el)

SpecExcerpt == InitExcerpt /\ [][NextExcerpt]_vars

\* The text of comment c's body without the white space around it.
BodyOf(c) == Trim(The(content[c].body))

\* C24: the excerpt of a comment is its body cut to the limit, and it ends
\* with the marker exactly when the body is longer than the limit; a body
\* within the limit, also one with white space before or after it, is
\* returned without the marker.
C24_ExcerptTruncation ==
  \A el \in DOMAIN metaCache :
    metaCache[el].excerpt =
      IF Len(BodyOf(el.c)) > ExcerptLimit
      THEN SliceTo(BodyOf(el.c), ExcerptLimit) \o <<"...">>
      ELSE BodyOf(el.c)

\* What the element of a comment can hold: its entry, author, score and time,
\* each present or missing, and a body or none.
ContentChoices ==
  [entry : BOOLEAN, author : BOOLEAN, score : BOOLEAN, time : BOOLEAN,
   body : Opt({<<"a">>})]

\* The page changes what comment c's element holds.
SetContent(c, p) ==
  /\ p # content[c]
  /\ content' = [content EXCEPT ![c] = p]
  /\ UNCHANGED <<markup, host, extras, cparent, depthAttr, idCache, metaCache,
                 redditVersion, trackerVars, ancVars, uiVars, fxVars>>

\* The page removes the id attributes of comment c's element, or sets them.
SetId(c) ==
  /\ idless' = IF c \in idless THEN idless \ {c} ELSE idless \cup {c}
  /\ UNCHANGED <<pageVars, redditVersion, trackerVars, ancVars, hasTitle, stickyUI,
                 marker, lastCall, threadAnchor, fxVars>>

\* The page removes the class attributes of the comments' elements: the
\* elements stay, and are comments no more.
Declassify ==
  /\ markup = "oldDoc"
  /\ markup' = "bare"
  /\ UNCHANGED <<host, extras, cparent, depthAttr, content, idCache, metaCache,
                 redditVersion, trackerVars, ancVars, uiVars, fxVars>>

\* A page of either layout with a comment, a reply to it and a further
\* comment; the first comment holds any choice of parts and has an id or none.
InitMeta ==
  /\ markup \in {"oldDoc", "shreddit"}
  /\ host = IF markup \in OldMarkups THEN "old.reddit.com" ELSE "www.reddit.com"
  /\ extras = {}
  /\ cparent = [c \in Comments |-> IF c = 2 THEN 1 ELSE 0]
  /\ depthAttr = [c \in Comments |-> TrueDepth(cparent, c)]
  /\ \E p \in ContentChoices :
       content = [c \in Comments |-> IF c = 1 THEN p ELSE FullContent]
  /\ idCache = EmptyMap
  /\ metaCache = EmptyMap
  /\ redditVersion = "none"
  /\ InitTracker
  /\ InitAnc
  /\ idless \in {{}, {1}}
  /\ hasTitle = TRUE
  /\ InitRenderer

NextMeta ==
  \/ \E el \in MetaInputs : GetCommentId(el)
  \/ \E el \in MetaInputs : GetCommentMeta(el)
  \/ \E p \in ContentChoices : SetContent(1, p)
  \/ SetId(1)
  \/ Declassify

SpecMeta == InitMeta /\ [][NextMeta]_vars

\* The metadata a first call of getCommentMeta returns now, <<>> for null.
FreshMeta(ver, el) == getCommentMeta(EmptyMap, ver, el).val

\* C25: under both layouts isCommentThing, getCommentId, getCommentMeta,
\* getParentThing and getIndentDepth answer false, null, null, null and -1 for
\* null, for a text node and for an element that is no comment; for a
\* comment the depth is not negative, a missing id gives null, and metadata
\* that is not null has the placeholder for a missing author and the empty
\* string for a missing score, time or body.
C25_TotalOnMissingData ==
  \A ver \in {"old", "new"}, el \in MetaInputs :
    IF ~isCommentThing(ver, el)
    THEN /\ getCommentIdCached(idCache, ver, el).val = <<>>
         /\ getCommentMeta(metaCache, ver, el).val = <<>>
         /\ getParentThing(ver, el) = NULL
         /\ getIndentDepth(depthCache, ver, el).val = -1
    ELSE /\ getIndentDepth(depthCache, ver, el).val >= 0
         /\ (el.c \in idless /\ el \notin DOMAIN idCache)
              => getCommentIdCached(idCache, ver, el).val = <<>>
         /\ \A m \in SeqRange(FreshMeta(ver, el)) :
              /\ ~content[el.c].author => m.author = <<"[deleted]">>
              /\ ~content[el.c].score => m.score = <<>>
              /\ ~content[el.c].time => m.time = <<>>
              /\ content[el.c].body = {} => m.excerpt = <<>>

\* The layout in use, and what calls made now return under it.
VerNow == detectRedditVersion(redditVersion)
IsCommentNow(el) == isCommentThing(VerNow, el)
IdNow(el) == getCommentIdCached(idCache, VerNow, el).val
MetaNow(el) == getCommentMeta(metaCache, VerNow, el).val

\* C26 as stated: once getCommentId or getCommentMeta has returned a result
\* that is not null for a node, every later call for the node returns that
\* result, whatever becomes of the node's attributes and content.
C26_CachedForGood ==
  [][/\ \A el \in DOMAIN idCache :
          IdNow(el)' = idCache[el]
     /\ \A el \in DOMAIN metaCache :
          MetaNow(el)' = <<metaCache[el]>>]_vars

\* C26 amended: once getCommentId or getCommentMeta has returned a result
\* that is not null for a node, every later call for the node returns that
\* result while the node is still a comment of the layout in use, whatever
\* becomes of its other attributes and its content; once the node is no
\* comment any more the call returns null.
C26_CachedWhileComment ==
  [][/\ \A el \in DOMAIN idCache :
          IdNow(el)' = IF IsCommentNow(el)' THEN idCache[el] ELSE <<>>
     /\ \A el \in DOMAIN metaCache :
          MetaNow(el)' = IF IsCommentNow(el)' THEN <<metaCache[el]>> ELSE <<>>]_vars

\* Id and metadata of the first comment are cached, and the comment has since
\* lost its id attributes and changed what it holds.
C26_Witness ==
  /\ Thing(1) \in DOMAIN idCache
  /\ 1 \in idless
  /\ Thing(1) \in DOMAIN metaCache
  /\ isCommentThing(VerNow, Thing(1))
  /\ FreshMeta(VerNow, Thing(1)) # <<metaCache[Thing(1)]>>

-----------------------------------------------------------------------------
(* ancestors.js: clearCache and invalidate                                 *)

\* What computeAncestors(el) returns now, and what it returns when both
\* caches are empty: the chain walked on the page as it is.
ChainNow(el) == computeAncestors(AncState, Ver, el)
ChainOnPage(el) ==
  computeAncestors([pc |-> EmptyMap, cc |-> EmptyMap, heap |-> heap], Ver, el)

\* computeAncestors(el) returns, and returns the chain el has on the page.
Recomputed(el) ==
  /\ ~ChainNow(el).hung
  /\ Returned(ChainNow(el)) = Returned(ChainOnPage(el))

\* C27: clearCache empties the parent cache and the chain cache: when it has
\* returned, computeAncestors of every comment gives the chain the comment has
\* on the page as it is now.
C27_ClearCacheClears ==
  [][ClearCache => \A el \in CommentThings : Recomputed(el)']_vars

\* The comment el and the comments below it on the page.
Subtree(el) == {el} \cup {Thing(c) : c \in Descendants(el.c)}

\* A cache holds an entry for x that the page no longer agrees with.
Stale(x) ==
  \/ x \in DOMAIN parentCache /\ parentCache[x] # getParentThing(Ver, x)
  \/ x \in DOMAIN chainCache /\ heap[chainCache[x]] # Returned(ChainOnPage(x))

\* C28: invalidate(node) invalidates the node and the comments below it: when
\* the entries the page has outdated are those of the node and of comments
\* below it (the node was moved) and invalidate(node) has returned,
\* computeAncestors of the node and of every comment below it gives the chain
\* that comment has on the page as it is now.
C28_InvalidateSubtree ==
  [][\A el \in CommentThings :
       (Invalidate(el) /\ \A x \in CommentThings : Stale(x) => x \in Subtree(el))
         => \A d \in Subtree(el) : Recomputed(d)']_vars

-----------------------------------------------------------------------------
(* One click, two handlers.                                                *)

\* The click being dispatched has changed the anchored node.
ChangedByClick == ev.phase # "idle" /\ currentAnchored # ev.pre

\* C31: one click changes the anchored node at most once and invokes the
\* callback at most once: once a handler of the click has changed the anchored
\* node, no later handler of the same click changes it again or back.
C31_OneChangePerClick ==
  /\ [](Len(ev.calls) <= 1)
  /\ [][ChangedByClick => currentAnchored' = currentAnchored]_vars

\* Both handlers have run on a click inside the anchored comment: the first
\* one cleared the anchor and called back, the second one found nothing to do.
C31_Witness ==
  /\ ev.phase = "done"
  /\ ev.pre = Thing(1)
  /\ ev.target = Node("text", 1)
  /\ currentAnchored = NULL
  /\ ev.calls = <<NULL>>

-----------------------------------------------------------------------------
(* ancestors.js: init() and destroy() of ThreadAnchor, init() being         *)
(* suspended at `await loadSettings()` while other tasks run.               *)

\* How many calls of init() await their settings at a time.
MaxPending == 2

\* How many registrations at chrome.storage.onChanged are followed.
MaxListeners == 2

\* ThreadAnchor.init() up to `await loadSettings()`; a call made when
\* isInitialized is set returns at once.
InitCall ==
  /\ ev.phase = "idle"
  /\ ~threadAnchor.isInitialized
  /\ threadAnchor.pending < MaxPending
  /\ threadAnchor' = [threadAnchor EXCEPT !.pending = @ + 1, !.overtaken = FALSE]
  /\ UNCHANGED <<pageVars, redditVersion, trackerVars, ancVars, idless, hasTitle,
                 stickyUI, marker, lastCall, fxVars>>

\* What chrome.storage.sync.get resolves to, or the settings in place when it
\* rejects.
Loaded == StoredSettings \cup {threadAnchor.settings}

\* ThreadAnchor.init() from the end of loadSettings on: the settings are
\* assigned, the listener is registered, updateStickyAncestors runs and
\* isInitialized is set.
InitResume(stored) ==
  /\ ev.phase = "idle"
  /\ threadAnchor.pending > 0
  /\ threadAnchor.onChanged < MaxListeners
  /\ ~hung
  /\ \E r \in {updateStickyAncestors(
                  [App EXCEPT !.ta.settings = stored,
                              !.ta.pending = @ - 1,
                              !.ta.onChanged = @ + 1,
                              !.ta.isInitialized = TRUE], Trk)} :
       /\ CommitApp(r.x)
       /\ isActive' = r.t.isActive
       /\ onChangeCallback' = r.t.onChangeCallback
       /\ currentAnchored' = r.t.currentAnchored
       /\ redditVersion' = r.t.redditVersion
  /\ UNCHANGED <<pageVars, ev, everThrew, idless, hasTitle, fxVars>>

\* ThreadAnchor.destroy() past its guard: removeListener, ActiveComment.destroy,
\* StickyUI.destroy
threadAnchorDestroy(x, t) ==
  [x |-> [x EXCEPT !.u = stickyDestroy(x.u),
                   !.call = IF x.u.s.isActive
                            THEN Call("destroy", <<>>, 0, FALSE, FALSE,
                                      x.u.s.currentActiveComment, Did(x.u, FALSE, 0))
                            ELSE x.call,
                   !.ta.onChanged = IF @ > 0 THEN @ - 1 ELSE 0,
                   !.ta.currentActiveComment = NULL,
                   !.ta.isInitialized = FALSE],
   t |-> IF ~t.isActive THEN t
         ELSE [t EXCEPT !.currentAnchored = NULL, !.onChangeCallback = "null",
                        !.isActive = FALSE]]

\* ThreadAnchor.destroy(); overtaken records that it was called while a call
\* of init() was awaiting its settings.
ThreadAnchorDestroy ==
  /\ ev.phase = "idle"
  /\ \E x \in {[App EXCEPT !.ta.overtaken = @ \/ threadAnchor.pending > 0]} :
     \E r \in {IF threadAnchor.isInitialized THEN threadAnchorDestroy(x, Trk)
                ELSE [x |-> x, t |-> Trk]} :
       /\ CommitApp(r.x)
       /\ isActive' = r.t.isActive
       /\ onChangeCallback' = r.t.onChangeCallback
       /\ currentAnchored' = r.t.currentAnchored
       /\ redditVersion' = r.t.redditVersion
  /\ UNCHANGED <<pageVars, ev, everThrew, idless, hasTitle, fxVars>>

\* The notifications of this specification: of the sync area, with a new value
\* of stickyAncestorsEnabled or of stickyDepth.
LifeChanges ==
  {ch \in Changes :
     /\ \A k \in DOMAIN ch \ {"stickyAncestorsEnabled", "stickyDepth"} : ch[k] = {}
     /\ ch.stickyAncestorsEnabled = {} \/ ch.stickyDepth = {}}

\* A page of either layout, with or without a post title, each comment a reply
\* to the one before it; nothing initialised yet.
InitLife ==
  /\ InitPage
  /\ markup \in {"oldDoc", "shreddit"}
  /\ cparent = [c \in Comments |-> c - 1]
  /\ redditVersion = "none"
  /\ InitTracker
  /\ InitAnc
  /\ idless = {}
  /\ hasTitle \in BOOLEAN
  /\ InitRenderer

NextLife ==
  \/ InitCall
  \/ \E stored \in Loaded : InitResume(stored)
  \/ ThreadAnchorDestroy
  \/ \E changes \in LifeChanges : SettingsChange(changes, "sync")
  \/ \E target \in SettingsTargets : ClickApp(target)
  \/ CaptureApp
  \/ ElementApp
  \/ BubbleApp
  \/ EndDispatch

SpecLife == InitLife /\ [][NextLife]_vars

\* No handler of a click is running.
NoHandlerRunning == ev.phase = "idle"

\* C32: whenever the tracker is Idle and no event handler is running, the
\* header shows no rows and is not visible and no node of the page carries the
\* marker, whatever clicks, notifications, init() and destroy() calls came
\* before.
C32_IdleMeansHidden ==
  (currentAnchored = NULL /\ NoHandlerRunning)
    => /\ stickyUI.rows = <<>>
       /\ ~stickyUI.visible
       /\ Marked = {}

\* The tracker is Idle again, listening, after a click took the anchor off a
\* comment whose header had been shown.
C32_Witness ==
  /\ NoHandlerRunning
  /\ isActive
  /\ currentAnchored = NULL
  /\ lastCall.op = "hide"
  /\ lastCall.cleared
  /\ stickyUI.rows = <<>>
  /\ Marked = {}

\* C33: whenever the feature is enabled, a node X is anchored and no event
\* handler is running, X carries the marker, for top-level and nested X, with
\* and without a post title.
C33_AnchoredIsMarked ==
  (Enabled /\ currentAnchored # NULL /\ NoHandlerRunning)
    => marker[currentAnchored.c].cls

\* Every call of init() has run to its end.
InitsComplete == threadAnchor.pending = 0

\* C36: once every call of init() has completed, calls that overlapped at the
\* settings load included, handleSettingsChange is registered once at
\* chrome.storage.onChanged, and with the feature enabled the tracker and the
\* header are initialised.
C36_InitIdempotent ==
  (InitsComplete /\ threadAnchor.isInitialized)
    => /\ threadAnchor.onChanged = 1
       /\ Enabled => (isActive /\ stickyUI.isActive /\ stickyUI.container)

\* C37: when destroy() was called while a call of init() awaited its settings,
\* and no init() was called after it, then once every call has completed no
\* listener is registered at chrome.storage.onChanged, the tracker's click
\* listeners are off and the header's container does not exist.
C37_DestroyDuringInit ==
  (InitsComplete /\ threadAnchor.overtaken)
    => /\ threadAnchor.onChanged = 0
       /\ ~threadAnchor.isInitialized
       /\ ~isActive
       /\ ~stickyUI.container

-----------------------------------------------------------------------------
(* Clicks on what an interactive control contains.                         *)

\* The elements inside a control: the icon of a button and the name inside the
\* author link, which lies outside the comment's text body.
NestedRoles == {"buttonicon", "authorname"}

\* C34: a click on an element nested inside an interactive control of a
\* comment (inside a button, or inside a link outside the text body) does not
\* change the anchored node and does not invoke the callback.
C34_NestedInControl ==
  (Handled /\ InComment(ev.target) /\ ev.target.role \in NestedRoles)
  => /\ currentAnchored = ev.pre
     /\ ev.calls = <<>>

-----------------------------------------------------------------------------
(* The chain builder: a node's chain against its memoized parent's.        *)

\* computeAncestors(n) followed by computeAncestors(p), p being the parent
\* the parent cache holds for n.
ChainAndParentChain(n) ==
  The({[hung |-> rn.hung \/ rp.hung, chain |-> Returned(rn), parentChain |-> Returned(rp)] :
       rn \in {computeAncestors(AncState, Ver, n)},
       rp \in {computeAncestors(computeAncestors(AncState, Ver, n).a, Ver, parentCache[n])}})

\* C35: after any sequence of computeAncestors calls, moves of comments and
\* invalidate calls, for every node n whose memoized parent is a node p,
\* computeAncestors(n) is computeAncestors(p) followed by n.
C35_ChainPrefix ==
  ~hung =>
    \A n \in DOMAIN parentCache :
      parentCache[n] # NULL =>
        \A r \in {ChainAndParentChain(n)} :
          ~r.hung => r.chain = Append(r.parentChain, n)

-----------------------------------------------------------------------------
(* util.js: a debounced and a throttled function at work.                  *)

UtilRest == <<pageVars, redditVersion, trackerVars, ancVars, uiVars, scrolled, bg, timers>>

\* Time passes.
Tick ==
  /\ util.now < MaxTime
  /\ util' = [util EXCEPT !.now = @ + 1]
  /\ UNCHANGED UtilRest

\* debounced(args) is invoked.
Debounced(args) ==
  /\ util.now + Delay <= MaxTime
  /\ Len(util.d.pending) < MaxTimers
  /\ util' = [util EXCEPT
        !.d = debounced(@, util.now, args),
        !.dlog = [@ EXCEPT !.invoked = TRUE, !.callAt = util.now, !.callArgs = args,
                           !.burst = IF util.dlog.invoked /\ util.now - util.dlog.callAt < Delay
                                     THEN 2 ELSE 1,
                           !.ran = 0, !.cancelled = FALSE]]
  /\ UNCHANGED UtilRest

\* A timeout of the debounced function fires, at its time or later; fn runs
\* and may throw.
DebounceFires(i, throws) ==
  /\ i \in DOMAIN util.d.pending
  /\ util.d.pending[i].due <= util.now
  /\ util' = [util EXCEPT
        !.d = debounceTimeout(@, i, throws),
        !.dlog = [@ EXCEPT !.executed = TRUE, !.execArgs = util.d.pending[i].args,
                           !.gap = util.now - util.dlog.callAt,
                           !.ran = Min(@ + 1, MaxTimers)]]
  /\ UNCHANGED UtilRest

\* debounced.cancel()
DebounceCancel ==
  /\ util' = [util EXCEPT !.d = cancel(@),
                          !.dlog = [@ EXCEPT !.cancelled = TRUE, !.ran = 0]]
  /\ UNCHANGED UtilRest

\* throttled(args) is invoked.
Throttled(args) ==
  /\ util.now + Interval <= MaxTime
  /\ Len(util.t.pending) < MaxTimers
  /\ \E r \in {throttled(util.t, util.now, args)} :
       util' = [util EXCEPT
         !.t = r.c,
         !.tlog = IF r.exec # <<>>
                  THEN [executed |-> TRUE, execAt |-> util.now,
                        gap |-> IF util.tlog.executed THEN util.now - util.tlog.execAt
                                ELSE Interval,
                        trailing |-> FALSE, owed |-> FALSE]
                  ELSE [@ EXCEPT !.owed = TRUE]]
  /\ UNCHANGED UtilRest

\* The timeout of the throttled function fires, at its time or later.
ThrottleFires(i) ==
  /\ i \in DOMAIN util.t.pending
  /\ util.t.pending[i].due <= util.now
  /\ util' = [util EXCEPT
        !.t = throttleTimeout(@, i, util.now),
        !.tlog = [executed |-> TRUE, execAt |-> util.now,
                  gap |-> IF util.tlog.executed THEN util.now - util.tlog.execAt
                          ELSE Interval,
                  trailing |-> TRUE, owed |-> FALSE]]
  /\ UNCHANGED UtilRest

\* throttled.cancel()
ThrottleCancel ==
  /\ util' = [util EXCEPT !.t = cancel(@), !.tlog = [@ EXCEPT !.owed = FALSE]]
  /\ UNCHANGED UtilRest

\* One page; the functions are made and nothing has been invoked.
InitUtilPage ==
  /\ Init
  /\ markup = "oldDoc"
  /\ cparent = [c \in Comments |-> 0]

DebounceFired == \E i \in DOMAIN util.d.pending, throws \in BOOLEAN : DebounceFires(i, throws)

NextDebounce ==
  \/ Tick
  \/ \E args \in ArgValues : Debounced(args)
  \/ DebounceFired
  \/ DebounceCancel

\* Time passes and a timeout that is due fires.
SpecDebounce ==
  InitUtilPage /\ [][NextDebounce]_vars /\ WF_vars(Tick) /\ WF_vars(DebounceFired)

ThrottleFired == \E i \in DOMAIN util.t.pending : ThrottleFires(i)

NextThrottle ==
  \/ Tick
  \/ \E args \in ArgValues : Throttled(args)
  \/ ThrottleFired
  \/ ThrottleCancel

SpecThrottle ==
  InitUtilPage /\ [][NextThrottle]_vars /\ WF_vars(Tick) /\ WF_vars(ThrottleFired)

\* An invocation of the debounced function waits for its execution.
DebounceWaiting == util.dlog.invoked /\ util.dlog.ran = 0 /\ ~util.dlog.cancelled

\* C38: fn is executed only when Delay has passed since the latest invocation
\* of the debounced function, once for that invocation and the ones before it,
\* with the arguments of that invocation; it is not executed after cancel()
\* until the function is invoked again; and an invocation that is followed by
\* no other and by no cancel() is followed by an execution.
C38_Debounce ==
  /\ [](/\ util.dlog.ran <= 1
        /\ (util.dlog.ran = 1) => (/\ util.dlog.gap >= Delay
                                   /\ util.dlog.execArgs = util.dlog.callArgs
                                   /\ ~util.dlog.cancelled))
  /\ (DebounceWaiting ~> (util.dlog.ran = 1 \/ util.dlog.cancelled))

\* fn has run once, with the arguments of the last of several invocations
\* less than Delay apart.
C38_Witness ==
  /\ util.dlog.burst = 2
  /\ util.dlog.ran = 1
  /\ util.dlog.callArgs = "b"
  /\ util.dlog.execArgs = "b"
  /\ util.d.pending = <<>>

\* C39: two executions of fn by the throttled function are at least Interval
\* apart, and while a suppressed invocation has been followed neither by an
\* execution nor by cancel() a timeout is pending for the end of the interval,
\* and an execution or cancel() follows.
C39_Throttle ==
  /\ [](/\ util.tlog.executed => (util.tlog.gap >= Interval)
        /\ util.tlog.owed => (/\ Len(util.t.pending) = 1
                              /\ util.t.pending[1].due = util.t.lastTime + Interval))
  /\ (util.tlog.owed ~> ~util.tlog.owed)

\* A timeout has made up for a suppressed invocation.
C39_Witness ==
  /\ util.tlog.executed
  /\ util.tlog.trailing
  /\ util.tlog.gap >= Interval
  /\ ~util.tlog.owed
  /\ util.t.timeoutId = 0

====
